---- MODULE Spec2Model ----
(***************************************************************************)
(* Verification model of the numeric engine of the visualization app:      *)
(* signal generation, recurrence matrix, line-structure extraction and RQA *)
(* measures (RQAVisualization.jsx) and sample entropy (App.jsx).           *)
(*                                                                         *)
(* Number encoding.  Samples, thresholds and tolerances are integers on a  *)
(* common grid.  A JavaScript number that results from a division of two   *)
(* counts is the pair <<a, b>>:                                            *)
(*   b > 0       the rational a/b                                          *)
(*   <<0, 0>>    NaN        (0/0)                                          *)
(*   <<1, 0>>    Infinity   (x/0, x > 0)                                   *)
(* Array indices are the 0-based indices of the source; sequences of the   *)
(* model are 1-based, so a[i] of the source is a[i+1] here.                *)
(*                                                                         *)
(* The model also covers the components of App.jsx: the toggle of App,     *)
(* the separation curve of LLEVisualization, and the box counting of       *)
(* FDVisualization, whose regression is evaluated in double arithmetic.    *)
(*                                                                         *)
(* Specifications: SpecRQA (signal -> matrix -> lines -> measures),        *)
(* SpecSampEn (calculateSampEn), SpecCalls (the engine functions called    *)
(* repeatedly in any order), SpecLines (the line finders on any binary     *)
(* matrix), SpecSine (the pipeline on the default signal of the            *)
(* component), SpecApp, SpecLLE, SpecFD (the three components driven by    *)
(* their controls and timers), SpecCalcFD (calculateFD on given counts).   *)
(***************************************************************************)
EXTENDS Integers, Sequences, FiniteSets, TLC

\* Bounds of the model.
MaxLen == 4      \* longest input signal
MaxVal == 1      \* samples range over 0..MaxVal
MaxDim == 2      \* embedding dimensions 0..MaxDim
MaxDelay == 2    \* delays 0..MaxDelay
MaxEps == 1      \* thresholds -1..MaxEps
MaxMinLen == 3   \* minimum line lengths 1..MaxMinLen
MaxPattern == 2  \* pattern lengths 0..MaxPattern
MaxTol == 2      \* tolerances -1..MaxTol
MaxGenLen == 2   \* generated signal lengths 1..MaxGenLen
MaxMatN == 3     \* sizes 0..MaxMatN of the matrices given to the line finders
MaxClicks == 40  \* clicks on the toggle button that are counted
MaxUserActions == 14  \* clicks in the step-by-step builder that are counted

VARIABLES
    pc,              \* position in the pipeline
    signal,          \* the input sequence
    threshold, embeddingDim, delay,   \* arguments of computeRecurrenceMatrix
    vectors,         \* the embedded vectors built by computeRecurrenceMatrix
    matrix,          \* the recurrence matrix
    minLineLength,   \* argument of the line finders
    diagonalLines, verticalLines, horizontalLines,
    measures,        \* the record returned by rqaMeasures
    patternLen, tolerance,   \* m and r of the sample-entropy estimator
    Bm, Am,          \* its match counters
    sampEn,          \* the value returned by calculateSampEn
    genCall, genResult,      \* the latest engine call and what it returned
    refCall, refResult,      \* an earlier call kept for comparison, and its result
    seedLaminar, seedRandom, \* the seed variable of the latest 'laminar' and
                             \* of the latest 'random' generator, as it was left
    showRQA,         \* state of App: the RQA view is the one shown
    clicks,          \* number of clicks on the toggle button so far
    buttonTransform, \* style.transform of the toggle button, set on hover
    time, trajectoryType, isPlaying,   \* state of LLEVisualization
    shape, boxSize, animating,         \* state of FDVisualization
    animIndex,       \* index of the interval started by animateBoxes, -1
                     \* when no interval is running
    counts,          \* the box counts of the tested sizes, largest size first
    fd,              \* the value returned by calculateFD
    step, autoPlay,  \* state of StepByStepBuilder
    stepTimer,       \* the timeout of its effect is pending
    userActions      \* number of clicks in the builder so far

rqaVars == <<signal, threshold, embeddingDim, delay, vectors, matrix,
             minLineLength, diagonalLines, verticalLines, horizontalLines,
             measures>>

sampVars == <<patternLen, tolerance, Bm, Am, sampEn>>

genVars == <<genCall, genResult, refCall, refResult, seedLaminar, seedRandom>>

appVars == <<showRQA, clicks, buttonTransform>>

lleVars == <<time, trajectoryType, isPlaying>>

fdVars == <<shape, boxSize, animating, animIndex, counts, fd>>

builderVars == <<step, autoPlay, stepTimer, userActions>>

uiVars == <<appVars, lleVars, fdVars, builderVars>>

vars == <<pc, rqaVars, sampVars, genVars, uiVars>>

-----------------------------------------------------------------------------
(* JavaScript values *)

Null == <<>>
NaN == <<0, 0>>
PosInfinity == <<1, 0>>
Zero == <<0, 1>>
Num(x) == <<x, 1>>

\* a / b on non-negative integers, as JavaScript evaluates it.
Div(a, b) == IF b = 0 THEN (IF a = 0 THEN NaN ELSE PosInfinity) ELSE <<a, b>>

IsFinite(q) == q[2] > 0
NumEq(p, q) == IsFinite(p) /\ IsFinite(q) /\ p[1] * q[2] = q[1] * p[2]
NumLeq(p, q) == IsFinite(p) /\ IsFinite(q) /\ p[1] * q[2] <= q[1] * p[2]

\* arr[idx]: an index outside the array reads undefined.
Read(arr, idx) ==
    IF idx >= 0 /\ idx < Len(arr)
    THEN [def |-> TRUE, v |-> arr[idx + 1]]
    ELSE [def |-> FALSE, v |-> 0]

-----------------------------------------------------------------------------
(* computeRecurrenceMatrix *)

\* faulty variant of NumVectors: one vector per sample, the embedding span
\* not subtracted
NumVectorsNoSpan(sig, m, tau) == Len(sig)

\* n = signal.length - (embeddingDim - 1) * delay
NumVectors(sig, m, tau) == Len(sig) - (m - 1) * tau

\* faulty variant of EmbedVector: the delay left out of the index
EmbedVectorNoDelay(sig, i, m, tau) == [d \in 1..m |-> Read(sig, i + (d - 1))]

\* the inner loop over d: vec.push(signal[i + d * delay])
EmbedVector(sig, i, m, tau) == [d \in 1..m |-> Read(sig, i + (d - 1) * tau)]

\* the loop over i building vectors
Embed(sig, m, tau) ==
    [i \in 1..NumVectors(sig, m, tau) |-> EmbedVector(sig, i - 1, m, tau)]

\* dist += Math.pow(vectors[i][d] - vectors[j][d], 2), for d below m
RECURSIVE SumSq(_, _, _)
SumSq(vi, vj, m) ==
    IF m <= 0 THEN 0
    ELSE SumSq(vi, vj, m - 1) + (vi[m].v - vj[m].v) * (vi[m].v - vj[m].v)

\* an undefined coordinate makes the difference, and so the distance, NaN
DistIsNaN(vi, vj, m) == \E d \in 1..m : ~vi[d].def \/ ~vj[d].def

\* faulty variants of SqrtLeq: the comparison made strict, and reversed
SqrtLess(d2, t) == t >= 0 /\ d2 < t * t
SqrtGeq(d2, t) == t < 0 \/ d2 >= t * t

\* Math.sqrt(d2) <= t for an integer d2 >= 0 and an integer t: with t < 0
\* never, otherwise exactly when d2 <= t*t (sqrt is monotone and exact on
\* squares).
SqrtLeq(d2, t) == t >= 0 /\ d2 <= t * t

\* dist <= threshold ? 1 : 0   (a comparison with NaN is false)
Cell(vi, vj, m, eps) ==
    IF ~DistIsNaN(vi, vj, m) /\ SqrtLeq(SumSq(vi, vj, m), eps) THEN 1 ELSE 0

computeRecurrenceMatrix(sig, eps, m, tau) ==
    LET n == NumVectors(sig, m, tau)
        vs == Embed(sig, m, tau)
    IN  [i \in 1..n |-> [j \in 1..n |-> Cell(vs[i], vs[j], m, eps)]]

-----------------------------------------------------------------------------
(* line finders *)

MakeLine(start, length, type, k) ==
    IF type = "diagonal"
    THEN [start |-> start, length |-> length, type |-> type, k |-> k]
    ELSE [start |-> start, length |-> length, type |-> type]

\* faulty variant of PushIfLong: any run that has started is pushed
PushIfAny(lineStart, lineLength, minLength, type, k) ==
    IF lineLength >= 1
    THEN <<MakeLine(lineStart, lineLength, type, k)>>
    ELSE <<>>

\* if (lineLength >= minLength) lines.push(...): the lines this adds
PushIfLong(lineStart, lineLength, minLength, type, k) ==
    IF lineLength >= minLength
    THEN <<MakeLine(lineStart, lineLength, type, k)>>
    ELSE <<>>

\* One iteration of a scan loop, at cell c = <<i, j>>.  The loop state st is
\* <<lines pushed so far, lineLength, lineStart>>.
ScanStep(mat, c, st, minLength, type, k) ==
    IF mat[c[1] + 1][c[2] + 1] = 1
    THEN <<st[1], st[2] + 1, IF st[2] = 0 THEN c ELSE st[3]>>
    ELSE <<st[1] \o PushIfLong(st[3], st[2], minLength, type, k), 0, st[3]>>

\* The iterations at cells[lo..hi], in order, from the loop state st: the
\* state after the last of them.  The iterations are grouped in halves, the
\* second half starting from the state the first half leaves (bound once, as
\* the value left).
RECURSIVE ScanRange(_, _, _, _, _, _, _, _)
ScanRange(mat, cells, lo, hi, st, minLength, type, k) ==
    IF lo > hi THEN st
    ELSE IF lo = hi THEN ScanStep(mat, cells[lo], st, minLength, type, k)
    ELSE LET mid == (lo + hi) \div 2 IN
         CHOOSE out \in
             {ScanRange(mat, cells, mid + 1, hi, left, minLength, type, k) :
                 left \in {ScanRange(mat, cells, lo, mid, st, minLength, type, k)}} :
             TRUE

\* let lineLength = 0; let lineStart = null; the loop over the cells of the
\* line; then the push after the loop, which closes a run that reaches the
\* end of the line.  Yields the lines pushed, in push order.
ScanLine(mat, cells, minLength, type, k) ==
    CHOOSE lines \in
        {end[1] \o PushIfLong(end[3], end[2], minLength, type, k) :
            end \in {ScanRange(mat, cells, 1, Len(cells), <<<<>>, 0, Null>>,
                               minLength, type, k)}} :
        TRUE

\* faulty variant of UpperDiagCells: the loop stops one cell early
UpperDiagCellsShort(n, k) == [p \in 1..(n - k - 1) |-> <<p - 1, p - 1 + k>>]
\* cells of the diagonal k above the main diagonal: i below n-k, j = i+k
UpperDiagCells(n, k) == [p \in 1..(n - k) |-> <<p - 1, p - 1 + k>>]
\* cells of the diagonal k below the main diagonal: j below n-k, i = j+k
LowerDiagCells(n, k) == [p \in 1..(n - k) |-> <<p - 1 + k, p - 1>>]
\* cells of column j, rows in order
ColumnCells(n, j) == [p \in 1..n |-> <<p - 1, j>>]
\* cells of row i, columns in order
RowCells(n, i) == [p \in 1..n |-> <<i, p - 1>>]

\* The outer loops run over a range lo..hi of lines and append what each
\* scan pushes, in order.  The range is split in halves: concatenation is
\* associative, so the list is the one the loop builds from lo up to hi.

\* for (let k = 1; k < n; k++) over the diagonals above the main diagonal
RECURSIVE UpperScan(_, _, _, _)
UpperScan(mat, lo, hi, minLength) ==
    IF lo > hi THEN <<>>
    ELSE IF lo = hi
    THEN ScanLine(mat, UpperDiagCells(Len(mat), lo), minLength, "diagonal", lo)
    ELSE LET mid == (lo + hi) \div 2 IN
         UpperScan(mat, lo, mid, minLength) \o UpperScan(mat, mid + 1, hi, minLength)

\* for (let k = 1; k < n; k++) over the diagonals below it, recorded with -k
RECURSIVE LowerScan(_, _, _, _)
LowerScan(mat, lo, hi, minLength) ==
    IF lo > hi THEN <<>>
    ELSE IF lo = hi
    THEN ScanLine(mat, LowerDiagCells(Len(mat), lo), minLength, "diagonal", 0 - lo)
    ELSE LET mid == (lo + hi) \div 2 IN
         LowerScan(mat, lo, mid, minLength) \o LowerScan(mat, mid + 1, hi, minLength)

findDiagonalLines(mat, minLength) ==
    UpperScan(mat, 1, Len(mat) - 1, minLength)
    \o LowerScan(mat, 1, Len(mat) - 1, minLength)

\* for (let j = 0; j < n; j++)
RECURSIVE ColumnScan(_, _, _, _)
ColumnScan(mat, lo, hi, minLength) ==
    IF lo > hi THEN <<>>
    ELSE IF lo = hi
    THEN ScanLine(mat, ColumnCells(Len(mat), lo), minLength, "vertical", 0)
    ELSE LET mid == (lo + hi) \div 2 IN
         ColumnScan(mat, lo, mid, minLength) \o ColumnScan(mat, mid + 1, hi, minLength)

findVerticalLines(mat, minLength) == ColumnScan(mat, 0, Len(mat) - 1, minLength)

\* for (let i = 0; i < n; i++)
RECURSIVE RowScan(_, _, _, _)
RowScan(mat, lo, hi, minLength) ==
    IF lo > hi THEN <<>>
    ELSE IF lo = hi
    THEN ScanLine(mat, RowCells(Len(mat), lo), minLength, "horizontal", 0)
    ELSE LET mid == (lo + hi) \div 2 IN
         RowScan(mat, lo, mid, minLength) \o RowScan(mat, mid + 1, hi, minLength)

findHorizontalLines(mat, minLength) == RowScan(mat, 0, Len(mat) - 1, minLength)

-----------------------------------------------------------------------------
(* rqaMeasures *)

Cells(mat) == (0..(Len(mat) - 1)) \X (0..(Len(mat) - 1))

\* faulty variant of AllRecurrentPoints: the main diagonal left out of the count
AllRecurrentPointsNoLOI(mat) ==
    Cardinality({c \in Cells(mat) : c[1] # c[2] /\ mat[c[1] + 1][c[2] + 1] = 1})

\* the counting loop "if (matrix[i][j] === 1) allRecurrentPoints++"
AllRecurrentPoints(mat) ==
    Cardinality({c \in Cells(mat) : mat[c[1] + 1][c[2] + 1] = 1})

\* the loop counting the cells with i !== j
RecurrentPointsExcludingLOI(mat) ==
    Cardinality({c \in Cells(mat) : c[1] # c[2] /\ mat[c[1] + 1][c[2] + 1] = 1})

\* the loop over j = i + 1 .. n - 1
UpperTriangleRecurrentPoints(mat) ==
    Cardinality({c \in Cells(mat) : c[2] > c[1] /\ mat[c[1] + 1][c[2] + 1] = 1})

\* lines.reduce((sum, line) => sum + line.length, 0): the sum of the
\* lengths of lines[lo..hi], added up by halves (integer addition is
\* associative, so the order of the additions does not matter)
RECURSIVE SumLengthsFrom(_, _, _)
SumLengthsFrom(lines, lo, hi) ==
    IF lo > hi THEN 0
    ELSE IF lo = hi THEN lines[lo].length
    ELSE LET mid == (lo + hi) \div 2 IN
         SumLengthsFrom(lines, lo, mid) + SumLengthsFrom(lines, mid + 1, hi)

SumLengths(lines) == SumLengthsFrom(lines, 1, Len(lines))

\* Math.max(...lines.map(line => line.length)), for a non-empty list: the
\* largest length among lines[lo..hi]
RECURSIVE MaxLengthFrom(_, _, _)
MaxLengthFrom(lines, lo, hi) ==
    IF lo = hi THEN lines[lo].length
    ELSE LET mid == (lo + hi) \div 2
             l == MaxLengthFrom(lines, lo, mid)
             r == MaxLengthFrom(lines, mid + 1, hi)
         IN  IF l > r THEN l ELSE r

MaxLength(lines) == MaxLengthFrom(lines, 1, Len(lines))

IsUpper(line) == line.k > 0

\* faulty variant of UpperDiagLines: the filter left out, both triangles counted
AllDiagLines(diagLines) == diagLines

\* diagonalLines.filter(line => line.k > 0)
UpperDiagLines(diagLines) == SelectSeq(diagLines, IsUpper)

\* RR = allRecurrentPoints / totalPoints
RecurrenceRate(allPts, totalPoints) == Div(allPts, totalPoints)

\* faulty variant of Determinism: the guard against U = 0 left out
DeterminismNoGuard(upperDiagPointsInLines, upperPts) ==
    Div(upperDiagPointsInLines, upperPts)

\* DET = upperTriangleRecurrentPoints > 0 ? upperDiagPointsInLines / U : 0
Determinism(upperDiagPointsInLines, upperPts) ==
    IF upperPts > 0 THEN Div(upperDiagPointsInLines, upperPts) ELSE Zero

\* LAM = allRecurrentPoints > 0 ? vertPointsInLines / allRecurrentPoints : 0
Laminarity(vertPointsInLines, allPts) ==
    IF allPts > 0 THEN Div(vertPointsInLines, allPts) ELSE Zero

\* faulty variant of AvgLength: the guard against an empty list left out
AvgLengthNoGuard(lines) == Div(SumLengths(lines), Len(lines))

\* lines.length > 0 ? sum of lengths / lines.length : 0
AvgLength(lines) ==
    IF Len(lines) > 0 THEN Div(SumLengths(lines), Len(lines)) ELSE Zero

\* lines.length > 0 ? Math.max(...) : 0
MaxLengthOrZero(lines) ==
    IF Len(lines) > 0 THEN Num(MaxLength(lines)) ELSE Zero

\* The record returned by rqaMeasures (its entropy field, a sum of
\* floating-point logarithms, is left out).
rqaMeasures(mat, diagLines, vertLines) ==
    LET n == Len(mat)
        totalPoints == n * n
        allPts == AllRecurrentPoints(mat)
        upperDiag == UpperDiagLines(diagLines)
        upperDiagPointsInLines == SumLengths(upperDiag)
        upperPts == UpperTriangleRecurrentPoints(mat)
        vertPointsInLines == SumLengths(vertLines)
    IN  [ RR |-> RecurrenceRate(allPts, totalPoints),
          DET |-> Determinism(upperDiagPointsInLines, upperPts),
          LAM |-> Laminarity(vertPointsInLines, allPts),
          avgDiagLength |-> AvgLength(upperDiag),
          avgVertLength |-> AvgLength(vertLines),
          maxDiagLength |-> MaxLengthOrZero(upperDiag),
          recurrentPoints |-> allPts,
          recurrentPointsExcludingLOI |-> RecurrentPointsExcludingLOI(mat),
          upperTriangleRecurrentPoints |-> upperPts,
          diagPointsInLines |-> upperDiagPointsInLines,
          vertPointsInLines |-> vertPointsInLines,
          totalPoints |-> totalPoints,
          numDiagLines |-> Len(upperDiag),
          numVertLines |-> Len(vertLines) ]

-----------------------------------------------------------------------------
(* calculateSampEn *)

\* The value returned by calculateSampEn is one of
\*   [kind |-> "const",  num |-> a, den |-> b]   the number a/b
\*   [kind |-> "neglog", num |-> a, den |-> b]   -ln(a/b), with a, b > 0
\*   [kind |-> "nan"], [kind |-> "inf"], [kind |-> "neginf"] (num = den = 0)
JsValue(kind, a, b) == [kind |-> kind, num |-> a, den |-> b]

\* the literal 2.5 of "return 2.5"
Sentinel == JsValue("const", 5, 2)

Abs(x) == IF x < 0 THEN 0 - x ELSE x

\* the loop over k: maxDiff of the windows of length m starting at i and j;
\* the last step compares signal[i + m - 1] with signal[j + m - 1]
RECURSIVE MaxDiff(_, _, _, _)
MaxDiff(sig, i, j, m) ==
    IF m <= 0 THEN 0
    ELSE LET rest == MaxDiff(sig, i, j, m - 1)
             diff == Abs(sig[i + m] - sig[j + m])
         IN  IF diff > rest THEN diff ELSE rest

RECURSIVE TemplatePairs(_, _, _)

\* faulty variant of TemplatePairs: the inner loop starts at j = i
TemplatePairsFromSelf(sig, m, i) ==
    IF i >= Len(sig) - m THEN <<>>
    ELSE [x \in 1..(Len(sig) - m - i) |-> <<i, i + x - 1>>]
         \o TemplatePairs(sig, m, i + 1)

\* the pairs <<i, j>> the two nested loops visit, in the order of the
\* iterations, from the given i on: i below n-m, j from i+1 below n-m
TemplatePairs(sig, m, i) ==
    IF i >= Len(sig) - m THEN <<>>
    ELSE [x \in 1..(Len(sig) - m - 1 - i) |-> <<i, i + x>>]
         \o TemplatePairs(sig, m, i + 1)

\* maxDiff < r
MatchesAtM(sig, p, m, r) == MaxDiff(sig, p[1], p[2], m) < r

\* i + m < n && j + m < n, and then Math.max(maxDiff, extDiff) < r
MatchesAtM1(sig, p, m, r) ==
    /\ p[1] + m < Len(sig) /\ p[2] + m < Len(sig)
    /\ LET maxDiff == MaxDiff(sig, p[1], p[2], m)
           extDiff == Abs(sig[p[1] + m + 1] - sig[p[2] + m + 1])
       IN  (IF maxDiff > extDiff THEN maxDiff ELSE extDiff) < r

\* the 0-based indices of signal that the iteration for the pair p reads
IndicesRead(sig, p, m, r) ==
    {p[1] + k : k \in 0..(m - 1)} \cup {p[2] + k : k \in 0..(m - 1)}
    \cup (IF MatchesAtM(sig, p, m, r) /\ p[1] + m < Len(sig) /\ p[2] + m < Len(sig)
          THEN {p[1] + m, p[2] + m}
          ELSE {})

\* Bm after the loops: the number of iterations that run Bm++
CountB(sig, m, r) ==
    LET loop == TemplatePairs(sig, m, 0) IN
    Cardinality({x \in 1..Len(loop) : MatchesAtM(sig, loop[x], m, r)})

\* faulty variant of CountA: Am++ placed outside the branch of Bm++, after
\* a test of extDiff alone
CountAOutsideBranch(sig, m, r) ==
    LET loop == TemplatePairs(sig, m, 0) IN
    Cardinality({x \in 1..Len(loop) :
                    /\ loop[x][1] + m < Len(sig) /\ loop[x][2] + m < Len(sig)
                    /\ Abs(sig[loop[x][1] + m + 1] - sig[loop[x][2] + m + 1]) < r})

\* Am after the loops: incremented inside the branch that increments Bm
CountA(sig, m, r) ==
    LET loop == TemplatePairs(sig, m, 0) IN
    Cardinality({x \in 1..Len(loop) :
                    MatchesAtM(sig, loop[x], m, r) /\ MatchesAtM1(sig, loop[x], m, r)})

\* -Math.log(q) for q = a / b as Div gives it
NegLog(q) ==
    IF q = NaN THEN JsValue("nan", 0, 0)
    ELSE IF q = PosInfinity THEN JsValue("neginf", 0, 0)
    ELSE IF q[1] = 0 THEN JsValue("inf", 0, 0)
    ELSE JsValue("neglog", q[1], q[2])

\* faulty variant of SampEnResult: only Bm === 0 is tested
SampEnResultNoATest(b, a) ==
    IF b = 0 THEN Sentinel ELSE NegLog(Div(a, b))

\* if (Bm === 0 || Am === 0) return 2.5; return -Math.log(Am / Bm)
SampEnResult(b, a) ==
    IF b = 0 \/ a = 0 THEN Sentinel ELSE NegLog(Div(a, b))

calculateSampEn(sig, m, r) == SampEnResult(CountB(sig, m, r), CountA(sig, m, r))

-----------------------------------------------------------------------------
(* generateSignal *)

\* 0x7fffffff
M31 == 2147483647

\* x + y for 0 <= x, y < 2^31: the carry into bit 31 and the low 31 bits
AddLow(x, y) ==
    IF x > M31 - y
    THEN [carry |-> 1, lo |-> (x - (M31 - y)) - 1]
    ELSE [carry |-> 0, lo |-> x + y]

\* A double holds 53 significant bits.  For the integer hi * 2^31 + lo with
\* hi >= 2^22 the last ShiftOf(hi) bits do not fit.
RECURSIVE ShiftOf(_)
ShiftOf(hi) == IF hi < 4194304 THEN 0 ELSE 1 + ShiftOf(hi \div 2)

\* the integer v.hi * 2^31 + v.lo rounded to a double (to nearest, ties to
\* even), as the result of a floating-point * or +
RoundDouble(v) ==
    LET sh == ShiftOf(v.hi)
        ulp == 2 ^ sh
        rem == v.lo % ulp
        down == v.lo - rem
        odd == (v.lo \div ulp) % 2 = 1
        up == (2 * rem > ulp) \/ (2 * rem = ulp /\ odd)
    IN  IF sh = 0 \/ rem = 0 THEN v
        ELSE IF ~up THEN [hi |-> v.hi, lo |-> down]
        ELSE LET s == AddLow(down, ulp) IN [hi |-> v.hi + s.carry, lo |-> s.lo]

\* seed * 1103515245 as an exact integer hi * 2^31 + lo, from 16-bit halves
\* (1103515245 = 16838 * 65536 + 20077)
Product(seed) ==
    LET s1 == seed \div 65536
        s0 == seed % 65536
        mid == s1 * 20077 + s0 * 16838
        low == AddLow(s0 * 20077, (mid % 32768) * 65536)
    IN  [hi |-> 2 * (s1 * 16838) + (mid \div 32768) + low.carry, lo |-> low.lo]

\* seed = (seed * 1103515245 + 12345) & 0x7fffffff, in double arithmetic:
\* the product and the sum are each rounded to a double, and the mask keeps
\* the low 31 bits
LcgNext(seed) ==
    LET p == RoundDouble(Product(seed))
        s == AddLow(p.lo, 12345)
        q == RoundDouble([hi |-> p.hi + s.carry, lo |-> s.lo])
    IN  q.lo

\* random() < 0.05, random() being seed / 0x7fffffff:
\* 0.05 * 0x7fffffff = 107374182.35
BelowJumpRate(seed) == seed <= 107374182

\* A sample is kept symbolically as [src, a, b]:
\*   periodic, drift, default   a = i, the sample is a closed form of i
\*   chaotic    a = number of logistic-map steps applied to x = 0.1
\*   random     a = seed, the sample is a / 0x7fffffff * 2 - 1
\*   laminar    a = the seed that set value (-1 for the initial 0.5),
\*              b = the seed of the noise term
Sample(src, a, b) == [src |-> src, a |-> a, b |-> b]

\* Array.from({ length }, (_, i) => f(i)), and the chaotic loop
ClosedForm(src, length, first) == [i \in 1..length |-> Sample(src, i - 1 + first, 0)]

\* faulty variant of LaminarSeedInit: the seed left by the previous call is carried on
LaminarSeedKept(prev) == prev

\* let seed = 12345: a fresh variable in every call, whatever an earlier
\* call's variable (prev) held
LaminarSeedInit(prev) == 12345

\* let seed = 54321
RandomSeedInit(prev) == 54321

\* the 'laminar' loop from sample i on, with the seed and value it has then
RECURSIVE LaminarLoop(_, _, _, _)
LaminarLoop(i, length, seed, value) ==
    IF i >= length THEN [data |-> <<>>, seed |-> seed]
    ELSE LET r1 == LcgNext(seed)
             jump == BelowJumpRate(r1)
             r2 == IF jump THEN LcgNext(r1) ELSE r1
             value2 == IF jump THEN r2 ELSE value
             r3 == LcgNext(r2)
             rest == LaminarLoop(i + 1, length, r3, value2)
         IN  [data |-> <<Sample("laminar", value2, r3)>> \o rest.data,
              seed |-> rest.seed]

\* Array.from({ length }, () => random() * 2 - 1)
RECURSIVE RandomLoop(_, _, _)
RandomLoop(i, length, seed) ==
    IF i >= length THEN [data |-> <<>>, seed |-> seed]
    ELSE LET r == LcgNext(seed)
             rest == RandomLoop(i + 1, length, r)
         IN  [data |-> <<Sample("random", r, 0)>> \o rest.data, seed |-> rest.seed]

SignalTypes == {"periodic", "chaotic", "drift", "laminar", "random", "other"}

\* generateSignal(type, length): the array returned, and the seed variables
\* as the call leaves them; prevLaminar and prevRandom are what earlier calls
\* left
generateSignal(type, length, prevLaminar, prevRandom) ==
    CASE type = "laminar" ->
            LET run == LaminarLoop(0, length, LaminarSeedInit(prevLaminar), 0 - 1)
            IN  [data |-> run.data, seedLaminar |-> run.seed, seedRandom |-> prevRandom]
      [] type = "random" ->
            LET run == RandomLoop(0, length, RandomSeedInit(prevRandom))
            IN  [data |-> run.data, seedLaminar |-> prevLaminar, seedRandom |-> run.seed]
      [] type = "chaotic" ->
            [data |-> ClosedForm("chaotic", length, 1),
             seedLaminar |-> prevLaminar, seedRandom |-> prevRandom]
      [] type \in {"periodic", "drift"} ->
            [data |-> ClosedForm(type, length, 0),
             seedLaminar |-> prevLaminar, seedRandom |-> prevRandom]
      [] OTHER ->
            [data |-> ClosedForm("default", length, 0),
             seedLaminar |-> prevLaminar, seedRandom |-> prevRandom]

-----------------------------------------------------------------------------
(* IEEE 754 double arithmetic, for the regression of calculateFD.          *)
(*                                                                         *)
(* A natural number is a sequence of limbs in base 2^15 = 32768, least     *)
(* significant first, without leading zero limbs; <<>> is 0.  A double is  *)
(*   [sgn |-> s, m |-> mantissa, e |-> exponent]   the number s * m * 2^e  *)
(* with s in {-1, 0, 1} and m a natural number of exactly 53 bits (s = 0,  *)
(* m = <<>>, e = 0 for zero).  +, -, * and / round to nearest, ties to     *)
(* even.  The values that occur are far from overflow and underflow.       *)
(* CHOOSE r \in {F(v) : v \in {x}} : TRUE is F(x) with x evaluated once.   *)

RECURSIVE BTrim(_)
BTrim(a) ==
    IF a = <<>> THEN <<>>
    ELSE IF a[Len(a)] = 0 THEN BTrim(SubSeq(a, 1, Len(a) - 1))
    ELSE a

\* a + b + carry from limb i on; a + b is BAdd(a, b, 1, 0)
RECURSIVE BAdd(_, _, _, _)
BAdd(a, b, i, carry) ==
    IF i > Len(a) /\ i > Len(b)
    THEN (IF carry = 0 THEN <<>> ELSE <<carry>>)
    ELSE CHOOSE r \in
           {<<x % 32768>> \o BAdd(a, b, i + 1, x \div 32768) :
              x \in {(IF i <= Len(a) THEN a[i] ELSE 0)
                     + (IF i <= Len(b) THEN b[i] ELSE 0) + carry}} : TRUE

\* a - b - borrow from limb i on, for a >= b; the result may end in zero limbs
RECURSIVE BSub(_, _, _, _)
BSub(a, b, i, borrow) ==
    IF i > Len(a) THEN <<>>
    ELSE CHOOSE r \in
           {IF x < 0 THEN <<x + 32768>> \o BSub(a, b, i + 1, 1)
                     ELSE <<x>> \o BSub(a, b, i + 1, 0) :
              x \in {a[i] - (IF i <= Len(b) THEN b[i] ELSE 0) - borrow}} : TRUE

\* 1, 0 or -1 as a > b, a = b or a < b, comparing from limb i down;
\* the comparison of a and b is BCmp(a, b, Len(a))
RECURSIVE BCmp(_, _, _)
BCmp(a, b, i) ==
    IF Len(a) > Len(b) THEN 1
    ELSE IF Len(a) < Len(b) THEN 0 - 1
    ELSE IF i = 0 THEN 0
    ELSE IF a[i] > b[i] THEN 1
    ELSE IF a[i] < b[i] THEN 0 - 1
    ELSE BCmp(a, b, i - 1)

\* a * k + carry from limb i on, for a single limb k
RECURSIVE BMulSmall(_, _, _, _)
BMulSmall(a, k, i, carry) ==
    IF i > Len(a) \/ k = 0 THEN (IF carry = 0 THEN <<>> ELSE <<carry>>)
    ELSE CHOOSE r \in
           {<<x % 32768>> \o BMulSmall(a, k, i + 1, x \div 32768) :
              x \in {a[i] * k + carry}} : TRUE

\* a times the limbs of b from limb j on; a * b is BMul(a, b, 1)
RECURSIVE BMul(_, _, _)
BMul(a, b, j) ==
    IF j > Len(b) THEN <<>>
    ELSE CHOOSE r \in
           {BAdd(p, IF rest = <<>> THEN <<>> ELSE <<0>> \o rest, 1, 0) :
              p \in {BMulSmall(a, b[j], 1, 0)}, rest \in {BMul(a, b, j + 1)}} : TRUE

\* a * 2^n
BShl(a, n) ==
    IF a = <<>> THEN <<>>
    ELSE [i \in 1..(n \div 15) |-> 0] \o BMulSmall(a, 2 ^ (n % 15), 1, 0)

\* a \div 2^n
BShr(a, n) ==
    LET q == n \div 15
        r == n % 15
    IN  IF q >= Len(a) THEN <<>>
        ELSE BTrim([i \in 1..(Len(a) - q) |->
                      (a[i + q] \div (2 ^ r))
                      + ((IF i + q < Len(a) THEN a[i + q + 1] ELSE 0) % (2 ^ r))
                        * (2 ^ (15 - r))])

RECURSIVE SmallBitLen(_)
SmallBitLen(x) == IF x = 0 THEN 0 ELSE 1 + SmallBitLen(x \div 2)

BBitLen(a) == IF a = <<>> THEN 0 ELSE 15 * (Len(a) - 1) + SmallBitLen(a[Len(a)])

FZero == [sgn |-> 0, m |-> <<>>, e |-> 0]

\* the double nearest to sgn * m * 2^e for m # 0: the s bits that do not
\* fit are cut off, and the mantissa q goes up by one when they are more
\* than half of its last place, or exactly half and q is odd
RoundDbl(sgn, m, e) ==
    CHOOSE r \in
      {IF s <= 0 THEN [sgn |-> sgn, m |-> BShl(mv, 0 - s), e |-> e + s]
       ELSE CHOOSE r2 \in
              {IF BBitLen(q2) = 54
               THEN [sgn |-> sgn, m |-> BShr(q2, 1), e |-> e + s + 1]
               ELSE [sgn |-> sgn, m |-> q2, e |-> e + s] :
                 q2 \in {CHOOSE q3 \in
                           {IF /\ half # <<>> /\ half[1] % 2 = 1
                               /\ (BShl(half, s - 1) # mv \/ q[1] % 2 = 1)
                            THEN BAdd(q, <<1>>, 1, 0)
                            ELSE q :
                              q \in {BShr(mv, s)}, half \in {BShr(mv, s - 1)}} : TRUE}} :
              TRUE :
         mv \in {m}, s \in {BBitLen(m) - 53}} : TRUE

FMul(x, y) ==
    IF x.sgn = 0 \/ y.sgn = 0 THEN FZero
    ELSE RoundDbl(x.sgn * y.sgn, BMul(x.m, y.m, 1), x.e + y.e)

\* the mantissas are brought to the smaller exponent e and added, or the
\* smaller one is subtracted from the larger one
FAdd(x, y) ==
    IF x.sgn = 0 THEN y
    ELSE IF y.sgn = 0 THEN x
    ELSE CHOOSE r \in
           {IF x.sgn = y.sgn THEN RoundDbl(x.sgn, BAdd(a, b, 1, 0), e)
            ELSE IF BCmp(a, b, Len(a)) = 0 THEN FZero
            ELSE IF BCmp(a, b, Len(a)) = 1
                 THEN RoundDbl(x.sgn, BTrim(BSub(a, b, 1, 0)), e)
                 ELSE RoundDbl(y.sgn, BTrim(BSub(b, a, 1, 0)), e) :
              e \in {IF x.e < y.e THEN x.e ELSE y.e},
              a \in {BShl(x.m, x.e - (IF x.e < y.e THEN x.e ELSE y.e))},
              b \in {BShl(y.m, y.e - (IF x.e < y.e THEN x.e ELSE y.e))}} : TRUE

FSub(x, y) == FAdd(x, [sgn |-> 0 - y.sgn, m |-> y.m, e |-> y.e])

\* n more bits q of the quotient of rem * 2^n by b, for rem < b, and what
\* is left
RECURSIVE DivBits(_, _, _)
DivBits(rem, b, n) ==
    IF n = 1
    THEN CHOOSE r \in
           {IF BCmp(r2, b, Len(b)) >= 0
            THEN [q |-> <<1>>, rem |-> BTrim(BSub(r2, b, 1, 0))]
            ELSE [q |-> <<>>, rem |-> r2] :
              r2 \in {BShl(rem, 1)}} : TRUE
    ELSE CHOOSE r \in
           {CHOOSE r3 \in
              {[q |-> BAdd(BShl(first.q, n - (n \div 2)), second.q, 1, 0),
                rem |-> second.rem] :
                 second \in {DivBits(first.rem, b, n - (n \div 2))}} : TRUE :
              first \in {DivBits(rem, b, n \div 2)}} : TRUE

\* x / y: the quotient of the mantissas to 56 bits after its leading bit and
\* one more bit that is set when the division leaves a remainder, rounded.
\* 0 / 0 is NaN (sgn 2), and x / 0 is Infinity (sgn 3) or -Infinity (sgn -3)
FDiv(x, y) ==
    IF y.sgn = 0 THEN [sgn |-> IF x.sgn = 0 THEN 2 ELSE 3 * x.sgn, m |-> <<>>, e |-> 0]
    ELSE IF x.sgn = 0 THEN FZero
    ELSE CHOOSE r \in
           {RoundDbl(x.sgn * y.sgn,
                     BAdd(BShl(d.q, 1), IF d.rem = <<>> THEN <<>> ELSE <<1>>, 1, 0),
                     x.e - y.e - 57) :
              d \in {IF BCmp(x.m, y.m, Len(y.m)) >= 0
                     THEN CHOOSE r4 \in
                            {[q |-> BAdd(BShl(<<1>>, 56), dd.q, 1, 0), rem |-> dd.rem] :
                               dd \in {DivBits(BTrim(BSub(x.m, y.m, 1, 0)), y.m, 56)}} : TRUE
                     ELSE DivBits(x.m, y.m, 56)}} : TRUE

-----------------------------------------------------------------------------
(* FDVisualization: box counting and the regression of calculateFD *)

\* Math.log of the box counts that occur, as V8 computes it (the doubles
\* nearest to the logarithms)
MathLog(c) ==
    CASE c = 1 -> FZero   \* 0.0
      [] c = 2 -> [sgn |-> 1, m |-> <<14831, 32244, 14603, 177>>, e |-> 0 - 53]   \* 0.6931471805599453
      [] c = 4 -> [sgn |-> 1, m |-> <<14831, 32244, 14603, 177>>, e |-> 0 - 52]   \* 1.3862943611198906
      [] c = 5 -> [sgn |-> 1, m |-> <<3379, 28635, 263, 206>>, e |-> 0 - 52]   \* 1.6094379124341003
      [] c = 6 -> [sgn |-> 1, m |-> <<8194, 29780, 11311, 229>>, e |-> 0 - 52]   \* 1.791759469228055
      [] c = 7 -> [sgn |-> 1, m |-> <<23127, 23652, 2506, 249>>, e |-> 0 - 52]   \* 1.9459101490553132
      [] c = 8 -> [sgn |-> 1, m |-> <<11123, 32375, 2760, 133>>, e |-> 0 - 51]   \* 2.0794415416798357
      [] c = 9 -> [sgn |-> 1, m |-> <<779, 30042, 20393, 140>>, e |-> 0 - 51]   \* 2.1972245773362196
      [] c = 14 -> [sgn |-> 1, m |-> <<15271, 11695, 29480, 168>>, e |-> 0 - 51]   \* 2.6390573296152584
      [] c = 16 -> [sgn |-> 1, m |-> <<14831, 32244, 14603, 177>>, e |-> 0 - 51]   \* 2.772588722239781
      [] c = 25 -> [sgn |-> 1, m |-> <<3379, 28635, 263, 206>>, e |-> 0 - 51]   \* 3.2188758248682006
      [] c = 32 -> [sgn |-> 1, m |-> <<18539, 32113, 26446, 221>>, e |-> 0 - 51]   \* 3.4657359027997265
      [] c = 33 -> [sgn |-> 1, m |-> <<14545, 27051, 25443, 223>>, e |-> 0 - 51]   \* 3.4965075614664802
      [] c = 64 -> [sgn |-> 1, m |-> <<11123, 32375, 2760, 133>>, e |-> 0 - 50]   \* 4.1588830833596715
      [] c = 81 -> [sgn |-> 1, m |-> <<779, 30042, 20393, 140>>, e |-> 0 - 50]   \* 4.394449154672439
      [] c = 86 -> [sgn |-> 1, m |-> <<15686, 21971, 17665, 142>>, e |-> 0 - 50]   \* 4.454347296253507
      [] c = 204 -> [sgn |-> 1, m |-> <<3835, 32462, 5892, 170>>, e |-> 0 - 50]   \* 5.318119993844216
      [] c = 289 -> [sgn |-> 1, m |-> <<32634, 1012, 10671, 181>>, e |-> 0 - 50]   \* 5.666426688112432
      [] c = 1089 -> [sgn |-> 1, m |-> <<14545, 27051, 25443, 223>>, e |-> 0 - 50]   \* 6.9930151229329605

\* Math.log(1 / s) for the tested box sizes s
LogOfInverse(s) ==
    CASE s = 128 -> [sgn |-> 0 - 1, m |-> <<29361, 15925, 8682, 155>>, e |-> 0 - 50]   \* -4.852030263919617
      [] s = 64 -> [sgn |-> 0 - 1, m |-> <<11123, 32375, 2760, 133>>, e |-> 0 - 50]   \* -4.1588830833596715
      [] s = 32 -> [sgn |-> 0 - 1, m |-> <<18539, 32113, 26446, 221>>, e |-> 0 - 51]   \* -3.4657359027997265
      [] s = 16 -> [sgn |-> 0 - 1, m |-> <<14831, 32244, 14603, 177>>, e |-> 0 - 51]   \* -2.772588722239781
      [] s = 8 -> [sgn |-> 0 - 1, m |-> <<11123, 32375, 2760, 133>>, e |-> 0 - 51]   \* -2.0794415416798357
      [] s = 4 -> [sgn |-> 0 - 1, m |-> <<14831, 32244, 14603, 177>>, e |-> 0 - 52]   \* -1.3862943611198906

gridSize == 256

sizes == <<128, 64, 32, 16, 8, 4>>

\* The number of boxes of the grid that hold a sample of the shape:
\*   line     the horizontal line from (20, 148) to (276, 148), every x
\*   square   the filled square from (84, 84) to (212, 212), every 2 pixels
\*   koch     the 4-iteration curve of generateKochPoints, its segments
\*            sampled every 2 pixels in floating point; the counts are
\*            those the code arrives at
countBoxes(shapeType, size) ==
    LET numBoxes == gridSize \div size
        BoxOf(x, y) ==
            LET boxI == (x - 20) \div size
                boxJ == (y - 20) \div size
            IN  IF boxI >= 0 /\ boxI < numBoxes /\ boxJ >= 0 /\ boxJ < numBoxes
                THEN {<<boxI, boxJ>>}
                ELSE {}
    IN  CASE shapeType = "line" ->
               Cardinality(UNION {BoxOf(x, 148) : x \in 20..276})
          [] shapeType = "square" ->
               Cardinality(UNION {BoxOf(84 + 2 * i, 84 + 2 * j) : i \in 0..64, j \in 0..64})
          [] shapeType = "koch" ->
               (CASE size = 128 -> 2 [] size = 64 -> 6 [] size = 32 -> 14
                  [] size = 16 -> 33 [] size = 8 -> 86 [] size = 4 -> 204)
          [] OTHER -> 0

\* faulty variant of boxCounts: the counts stored under the wrong sizes
boxCountsReversed(shapeType) == [i \in 1..6 |-> countBoxes(shapeType, sizes[7 - i])]

\* counts[s] for the tested sizes, in the order calculateFD reads them
boxCounts(shapeType) == [i \in 1..6 |-> countBoxes(shapeType, sizes[i])]

\* reduce((sum, x, i) => sum + x * ys[i], acc) from element i on
RECURSIVE SumProducts(_, _, _, _)
SumProducts(xs, ys, i, acc) ==
    IF i > Len(xs) THEN acc
    ELSE CHOOSE r \in
           {SumProducts(xs, ys, i + 1, next) :
              next \in {FAdd(acc, FMul(xs[i], ys[i]))}} : TRUE

\* reduce((a, b) => a + b, acc) from element i on
RECURSIVE Sum(_, _, _)
Sum(xs, i, acc) ==
    IF i > Len(xs) THEN acc
    ELSE CHOOSE r \in {Sum(xs, i + 1, next) : next \in {FAdd(acc, xs[i])}} : TRUE

calculateFD(countsArray) ==
    CHOOSE r \in
      {CHOOSE r2 \in
         {FDiv(FSub(FMul(n, sumXY), FMul(sumX, sumY)),
               FSub(FMul(n, sumX2), FMul(sumX, sumX))) :
            n \in {RoundDbl(1, <<Len(logSizes)>>, 0)},
            sumX \in {Sum(logSizes, 1, FZero)},
            sumY \in {Sum(logCounts, 1, FZero)},
            sumXY \in {SumProducts(logSizes, logCounts, 1, FZero)},
            sumX2 \in {SumProducts(logSizes, logSizes, 1, FZero)}} : TRUE :
         logSizes \in {[i \in 1..6 |-> LogOfInverse(sizes[i])]},
         logCounts \in {[i \in 1..6 |->
                          MathLog(IF countsArray[i] > 1 THEN countsArray[i] ELSE 1)]}} :
      TRUE

-----------------------------------------------------------------------------
(* LLEVisualization: the separation of the two trajectories *)

maxTime == 100

\* The separation is kept symbolically as [form, lam10, time]:
\*   exp   initialSeparation * Math.exp(lam10 / 10 * (time / 10))
\*   osc   initialSeparation * (1 + 0.5 * Math.sin(time / 10))
\*   two   the number 2
\* with initialSeparation = 0.01
Separation(form, lam10, tm) == [form |-> form, lam10 |-> lam10, time |-> tm]

\* Math.min(separation, 2).  0.01 * Math.exp(x) > 2 when e^x > 200, that is
\* for an exponent x = lam10 * time / 100 >= 5.30 (ln 200 = 5.2983...); the
\* oscillating separation is at most 0.015
MinWithTwo(sep) ==
    IF sep.form = "exp" /\ sep.lam10 * sep.time >= 530
    THEN Separation("two", 0, 0)
    ELSE sep

\* lle is kept in tenths, t = time / 10 as the pair <<time, 10>>
getTrajectories(tm, type) ==
    LET lle == IF type = "chaotic" THEN 9
               ELSE IF type = "periodic" THEN 0
               ELSE 0 - 5
        separation == IF type = "chaotic" THEN Separation("exp", lle, tm)
                      ELSE IF type = "periodic" THEN Separation("osc", lle, tm)
                      ELSE Separation("exp", lle, tm)
    IN  [separation |-> MinWithTwo(separation), lle |-> lle, t |-> <<tm, 10>>]

-----------------------------------------------------------------------------
(* App: the toggle between the two visualizations *)

\* faulty variant of Toggle: the click leaves the state as it is
ToggleKept(v) == v

\* !showRQA
Toggle(v) == ~v

\* {showRQA ? <RQAVisualization /> : <ChaosVisualization />}
Rendered(v) == IF v THEN {"RQAVisualization"} ELSE {"ChaosVisualization"}

\* background: showRQA ? '#3498db' : '#ff6b35'
ButtonBackground(v) == IF v THEN "#3498db" ELSE "#ff6b35"

-----------------------------------------------------------------------------
(* The components of App.jsx as they are when mounted *)

\* App: useState(true); the button's inline transform is not set
AppIdle == showRQA = TRUE /\ clicks = 0 /\ buttonTransform = ""

\* LLEVisualization: useState(0), useState('chaotic'), useState(false)
LleIdle == time = 0 /\ trajectoryType = "chaotic" /\ isPlaying = FALSE

\* FDVisualization: useState(32), useState('koch'), useState(false); nothing
\* counted before the first render
FdIdle ==
    /\ shape = "koch" /\ boxSize = 32 /\ animating = FALSE
    /\ animIndex = 0 - 1
    /\ counts = <<>> /\ fd = FZero

\* StepByStepBuilder: useState(0), useState(false); the first effect creates
\* no timeout
BuilderIdle ==
    step = 0 /\ autoPlay = FALSE /\ stepTimer = FALSE /\ userActions = 0

UiIdle == AppIdle /\ LleIdle /\ FdIdle /\ BuilderIdle

-----------------------------------------------------------------------------
(* The RQA pipeline as a state machine: a signal is given, the recurrence  *)
(* matrix is computed from it, the three line finders run on the matrix,   *)
(* and rqaMeasures is computed from the matrix and the lines.              *)

RECURSIVE SeqsUpTo(_, _)
SeqsUpTo(S, n) ==
    IF n = 0 THEN {<<>>}
    ELSE LET shorter == SeqsUpTo(S, n - 1) IN
         shorter \cup {Append(s, x) : s \in {t \in shorter : Len(t) = n - 1}, x \in S}

Signals == SeqsUpTo(0..MaxVal, MaxLen)
Thresholds == (0 - 1)..MaxEps

NoMeasures == [RR |-> Zero]

\* nothing computed yet
RqaIdle ==
    /\ threshold = 0 /\ embeddingDim = 1 /\ delay = 1
    /\ vectors = <<>> /\ matrix = <<>>
    /\ minLineLength = 2
    /\ diagonalLines = <<>> /\ verticalLines = <<>> /\ horizontalLines = <<>>
    /\ measures = NoMeasures

SampIdle ==
    /\ patternLen = 2 /\ tolerance = 0
    /\ Bm = 0 /\ Am = 0
    /\ sampEn = Sentinel

NoCall == [fn |-> "none", args |-> <<>>]

GenIdle ==
    /\ genCall = NoCall /\ genResult = <<>>
    /\ refCall = NoCall /\ refResult = <<>>
    /\ seedLaminar = 0 /\ seedRandom = 0

InitRQA ==
    /\ pc = "input"
    /\ signal \in Signals
    /\ RqaIdle
    /\ SampIdle
    /\ GenIdle
    /\ UiIdle

\* computeRecurrenceMatrix called with a threshold, a dimension and a delay
\* taken from the given sets
ComputeMatrixOver(epsSet, mSet, tauSet) ==
    /\ pc = "input"
    /\ \E eps \in epsSet, m \in mSet, tau \in tauSet :
          /\ threshold' = eps /\ embeddingDim' = m /\ delay' = tau
          /\ vectors' = Embed(signal, m, tau)
          /\ matrix' = computeRecurrenceMatrix(signal, eps, m, tau)
    /\ pc' = "matrix"
    /\ UNCHANGED <<signal, minLineLength, diagonalLines, verticalLines,
                   horizontalLines, measures, sampVars, genVars, uiVars>>

ComputeRecurrenceMatrix == ComputeMatrixOver(Thresholds, 0..MaxDim, 0..MaxDelay)

\* the three line finders called with a minimum length taken from the set
FindLinesOver(minLengthSet) ==
    /\ pc = "matrix"
    /\ \E minLength \in minLengthSet :
          /\ minLineLength' = minLength
          /\ diagonalLines' = findDiagonalLines(matrix, minLength)
          /\ verticalLines' = findVerticalLines(matrix, minLength)
          /\ horizontalLines' = findHorizontalLines(matrix, minLength)
    /\ pc' = "lines"
    /\ UNCHANGED <<signal, threshold, embeddingDim, delay, vectors, matrix,
                   measures, sampVars, genVars, uiVars>>

FindLines == FindLinesOver(1..MaxMinLen)

RqaMeasures ==
    /\ pc = "lines"
    /\ measures' = rqaMeasures(matrix, diagonalLines, verticalLines)
    /\ pc' = "done"
    /\ UNCHANGED <<signal, threshold, embeddingDim, delay, vectors, matrix,
                   minLineLength, diagonalLines, verticalLines, horizontalLines,
                   sampVars, genVars, uiVars>>

NextRQA == ComputeRecurrenceMatrix \/ FindLines \/ RqaMeasures

SpecRQA == InitRQA /\ [][NextRQA]_vars

-----------------------------------------------------------------------------
(* The sample-entropy estimator as a state machine: a signal is given and  *)
(* calculateSampEn runs on it with a pattern length and a tolerance.       *)


InitSampEn ==
    /\ pc = "input"
    /\ signal \in Signals
    /\ RqaIdle
    /\ SampIdle
    /\ GenIdle
    /\ UiIdle

CalculateSampEn ==
    /\ pc = "input"
    /\ \E m \in 0..MaxPattern, r \in (0 - 1)..MaxTol :
          /\ patternLen' = m /\ tolerance' = r
          /\ Bm' = CountB(signal, m, r)
          /\ Am' = CountA(signal, m, r)
          /\ sampEn' = calculateSampEn(signal, m, r)
    /\ pc' = "sampen"
    /\ UNCHANGED <<rqaVars, genVars, uiVars>>

SpecSampEn == InitSampEn /\ [][CalculateSampEn]_vars

-----------------------------------------------------------------------------
(* The engine functions called in any order, any number of times.  One     *)
(* earlier call is kept with its result, to compare later calls with.      *)

\* the one signal the other engine functions are called with here
CallSignal == <<0, 0, 1>>

Call(fn, args) == [fn |-> fn, args |-> args]

\* the latest call and its result are recorded; while no call is kept for
\* comparison, this one may become it
Returned(call, result) ==
    /\ genCall' = call
    /\ genResult' = result
    /\ \/ UNCHANGED <<refCall, refResult>>
       \/ refCall = NoCall /\ refCall' = call /\ refResult' = result

InitCalls ==
    /\ pc = "input"
    /\ signal = <<>>
    /\ RqaIdle
    /\ SampIdle
    /\ GenIdle
    /\ UiIdle

CallGenerateSignal ==
    /\ \E type \in SignalTypes, length \in 1..MaxGenLen :
          \E out \in {generateSignal(type, length, seedLaminar, seedRandom)} :
          /\ Returned(Call("generateSignal", <<type, length>>), out.data)
          /\ seedLaminar' = out.seedLaminar
          /\ seedRandom' = out.seedRandom
    /\ UNCHANGED <<pc, uiVars, rqaVars, sampVars>>

CallComputeRecurrenceMatrix ==
    /\ Returned(Call("computeRecurrenceMatrix", <<CallSignal, 0, 1, 1>>),
                computeRecurrenceMatrix(CallSignal, 0, 1, 1))
    /\ UNCHANGED <<pc, uiVars, rqaVars, sampVars, seedLaminar, seedRandom>>

CallFindLines ==
    /\ LET mat == computeRecurrenceMatrix(CallSignal, 0, 1, 1) IN
          \/ Returned(Call("findDiagonalLines", <<mat, 2>>), findDiagonalLines(mat, 2))
          \/ Returned(Call("findVerticalLines", <<mat, 2>>), findVerticalLines(mat, 2))
          \/ Returned(Call("findHorizontalLines", <<mat, 2>>), findHorizontalLines(mat, 2))
    /\ UNCHANGED <<pc, uiVars, rqaVars, sampVars, seedLaminar, seedRandom>>

CallCalculateSampEn ==
    /\ Returned(Call("calculateSampEn", <<CallSignal, 1, 1>>),
                calculateSampEn(CallSignal, 1, 1))
    /\ UNCHANGED <<pc, uiVars, rqaVars, sampVars, seedLaminar, seedRandom>>

NextCalls ==
    \/ CallGenerateSignal
    \/ CallComputeRecurrenceMatrix
    \/ CallFindLines
    \/ CallCalculateSampEn

SpecCalls == InitCalls /\ [][NextCalls]_vars

-----------------------------------------------------------------------------
(* The line finders on their own: any binary matrix is given, and the      *)
(* three finders run on it with a minimum length.                          *)

BinaryMatrices == UNION {[1..n -> [1..n -> {0, 1}]] : n \in 0..MaxMatN}

InitLines ==
    /\ pc = "matrix"
    /\ signal = <<>>
    /\ threshold = 0 /\ embeddingDim = 1 /\ delay = 1
    /\ vectors = <<>>
    /\ matrix \in BinaryMatrices
    /\ minLineLength = 2
    /\ diagonalLines = <<>> /\ verticalLines = <<>> /\ horizontalLines = <<>>
    /\ measures = NoMeasures
    /\ SampIdle
    /\ GenIdle
    /\ UiIdle

SpecLines == InitLines /\ [][FindLines]_vars

-----------------------------------------------------------------------------
(* The RQA pipeline on the sine signal of generateSignal's default branch, *)
(* Math.sin(i * 0.3), with the settings the sliders of the component offer.*)
(* Samples and thresholds are in units of 1/10000: SineTable[i + 1] is     *)
(* sin(0.3 i) rounded to four decimals.  For the thresholds used here no   *)
(* pair of embedded vectors is closer to the threshold than the rounding,  *)
(* so the matrix is the one the floating-point computation gives.          *)

SignalLength == 60

SineTable ==
    <<0, 2955, 5646, 7833, 9320, 9975, 9738, 8632, 6755, 4274,
      1411, 0 - 1577, 0 - 4425, 0 - 6878, 0 - 8716, 0 - 9775, 0 - 9962,
      0 - 9258, 0 - 7728, 0 - 5507,
      0 - 2794, 168, 3115, 5784, 7937, 9380, 9985, 9699, 8546, 6630,
      4121, 1245, 0 - 1743, 0 - 4575, 0 - 6999, 0 - 8797, 0 - 9809,
      0 - 9946, 0 - 9193, 0 - 7620,
      0 - 5366, 0 - 2632, 336, 3275, 5921, 8038, 9437, 9993, 9657, 8457,
      6503, 3967, 1078, 0 - 1909, 0 - 4724, 0 - 7118, 0 - 8876, 0 - 9841,
      0 - 9927, 0 - 9126>>

\* generateSignal(<no listed type>, 60)
SineSignal == [i \in 1..SignalLength |-> SineTable[i]]

InitSine ==
    /\ pc = "input"
    /\ signal = SineSignal
    /\ RqaIdle
    /\ SampIdle
    /\ GenIdle
    /\ UiIdle

\* threshold slider: 0.1 to 0.8 (every second step of 0.05);
\* embedding-dimension slider: 1 to 3; the component never passes a delay
ComputeSineMatrix == ComputeMatrixOver({1000 * x : x \in 1..8}, 1..3, {1})

\* minimum-line-length slider: 2 to 5
FindSineLines == FindLinesOver(2..5)

NextSine == ComputeSineMatrix \/ FindSineLines \/ RqaMeasures

SpecSine == InitSine /\ [][NextSine]_vars

-----------------------------------------------------------------------------
(* App as a state machine: the toggle button is clicked, entered and left  *)
(* by the pointer.                                                         *)

InitApp ==
    /\ pc = "app"
    /\ signal = <<>>
    /\ RqaIdle
    /\ SampIdle
    /\ GenIdle
    /\ UiIdle

\* onClick={() => setShowRQA(!showRQA)}
ClickToggle ==
    /\ pc = "app"
    /\ clicks < MaxClicks
    /\ showRQA' = Toggle(showRQA)
    /\ clicks' = clicks + 1
    /\ UNCHANGED <<pc, buttonTransform, lleVars, fdVars, builderVars, rqaVars, sampVars, genVars>>

MouseEnter ==
    /\ pc = "app"
    /\ buttonTransform # "scale(1.05)"
    /\ buttonTransform' = "scale(1.05)"
    /\ UNCHANGED <<pc, showRQA, clicks, lleVars, fdVars, builderVars, rqaVars, sampVars, genVars>>

MouseLeave ==
    /\ pc = "app"
    /\ buttonTransform = "scale(1.05)"
    /\ buttonTransform' = "scale(1)"
    /\ UNCHANGED <<pc, showRQA, clicks, lleVars, fdVars, builderVars, rqaVars, sampVars, genVars>>

NextApp == ClickToggle \/ MouseEnter \/ MouseLeave

SpecApp == InitApp /\ [][NextApp]_vars

-----------------------------------------------------------------------------
(* LLEVisualization as a state machine.  The chaos view is shown (one      *)
(* click on the toggle), and the component is in its initial state.        *)

ChaosShown == showRQA = FALSE /\ clicks = 1 /\ buttonTransform = ""

InitLLE ==
    /\ pc = "lle"
    /\ signal = <<>>
    /\ RqaIdle
    /\ SampIdle
    /\ GenIdle
    /\ ChaosShown /\ LleIdle /\ FdIdle /\ BuilderIdle

\* onClick={() => { setTrajectoryType(type); reset(); }}
SelectTrajectoryType ==
    /\ pc = "lle"
    /\ \E type \in {"chaotic", "periodic", "stable"} : trajectoryType' = type
    /\ time' = 0
    /\ isPlaying' = FALSE
    /\ UNCHANGED <<pc, appVars, fdVars, builderVars, rqaVars, sampVars, genVars>>

\* onClick={() => setIsPlaying(!isPlaying)}
TogglePlay ==
    /\ pc = "lle"
    /\ isPlaying' = ~isPlaying
    /\ UNCHANGED <<pc, time, trajectoryType, appVars, fdVars, builderVars, rqaVars, sampVars, genVars>>

\* reset
ResetTime ==
    /\ pc = "lle"
    /\ time' = 0
    /\ isPlaying' = FALSE
    /\ UNCHANGED <<pc, trajectoryType, appVars, fdVars, builderVars, rqaVars, sampVars, genVars>>

\* the range input, min 0 and max 100
SlideTime ==
    /\ pc = "lle"
    /\ \E v \in 0..100 : time' = v
    /\ UNCHANGED <<pc, trajectoryType, isPlaying, appVars, fdVars, builderVars, rqaVars, sampVars,
                   genVars>>

\* faulty variant of Tick: the interval outlives time < maxTime and the new
\* value is not clamped
TickUnclamped ==
    /\ pc = "lle"
    /\ isPlaying
    /\ time' = time + 1
    /\ UNCHANGED <<pc, trajectoryType, isPlaying, appVars, fdVars, builderVars, rqaVars, sampVars,
                   genVars>>

\* the interval of the effect, which exists while isPlaying && time < maxTime
Tick ==
    /\ pc = "lle"
    /\ isPlaying /\ time < maxTime
    /\ time' = (IF time + 1 < maxTime THEN time + 1 ELSE maxTime)
    /\ UNCHANGED <<pc, trajectoryType, isPlaying, appVars, fdVars, builderVars, rqaVars, sampVars,
                   genVars>>

NextLLE == SelectTrajectoryType \/ TogglePlay \/ ResetTime \/ SlideTime \/ Tick

SpecLLE == InitLLE /\ [][NextLLE]_vars

-----------------------------------------------------------------------------
(* FDVisualization as a state machine.  counts and fd are what the render  *)
(* after each state change computes.                                       *)

InitFD ==
    /\ pc = "fd"
    /\ signal = <<>>
    /\ RqaIdle
    /\ SampIdle
    /\ GenIdle
    /\ ChaosShown /\ LleIdle /\ BuilderIdle
    /\ shape = "koch" /\ boxSize = 32 /\ animating = FALSE
    /\ animIndex = 0 - 1
    /\ counts = boxCounts("koch")
    /\ fd = calculateFD(boxCounts("koch"))

\* onClick={() => setShape(type)}
SetShape ==
    /\ pc = "fd"
    /\ \E type \in {"line", "koch", "square"} :
          /\ shape' = type
          /\ counts' = boxCounts(type)
          /\ fd' = calculateFD(boxCounts(type))
    /\ UNCHANGED <<pc, boxSize, animating, animIndex, appVars, lleVars, builderVars, rqaVars,
                   sampVars, genVars>>

\* the range input over the indices 0..5 of the tested sizes
SlideBoxSize ==
    /\ pc = "fd"
    /\ \E v \in 0..5 : boxSize' = sizes[v + 1]
    /\ UNCHANGED <<pc, shape, animating, animIndex, counts, fd, appVars, lleVars,
                   builderVars, rqaVars, sampVars, genVars>>

\* animateBoxes; the button is disabled while animating
AnimateBoxes ==
    /\ pc = "fd"
    /\ ~animating
    /\ animating' = TRUE
    /\ animIndex' = 0
    /\ UNCHANGED <<pc, shape, boxSize, counts, fd, appVars, lleVars, builderVars, rqaVars,
                   sampVars, genVars>>

\* faulty variant of AnimateTick: the interval is never cleared and starts
\* over after the last size
AnimateTickNeverCleared ==
    /\ pc = "fd"
    /\ animIndex >= 0
    /\ boxSize' = sizes[animIndex + 1]
    /\ animIndex' = (animIndex + 1) % Len(sizes)
    /\ UNCHANGED <<pc, shape, animating, counts, fd, appVars, lleVars, builderVars, rqaVars,
                   sampVars, genVars>>

\* one firing of the interval of animateBoxes
AnimateTick ==
    /\ pc = "fd"
    /\ animIndex >= 0
    /\ boxSize' = sizes[animIndex + 1]
    /\ IF animIndex + 1 >= Len(sizes)
       THEN animIndex' = 0 - 1 /\ animating' = FALSE
       ELSE animIndex' = animIndex + 1 /\ UNCHANGED animating
    /\ UNCHANGED <<pc, shape, counts, fd, appVars, lleVars, builderVars, rqaVars, sampVars,
                   genVars>>

NextFD == SetShape \/ SlideBoxSize \/ AnimateBoxes \/ AnimateTick

SpecFD == InitFD /\ [][NextFD]_vars

-----------------------------------------------------------------------------
(* calculateFD as a function of the box counts: six counts are given, and  *)
(* the regression is computed from them.                                   *)

InitCalcFD ==
    /\ pc = "counts"
    /\ signal = <<>>
    /\ RqaIdle
    /\ SampIdle
    /\ GenIdle
    /\ ChaosShown /\ LleIdle /\ BuilderIdle
    /\ shape = "koch" /\ boxSize = 32 /\ animating = FALSE
    /\ animIndex = 0 - 1
    /\ counts \in [1..6 -> {1, 2, 7}]
    /\ fd = FZero

CalculateFD ==
    /\ pc = "counts"
    /\ fd' = calculateFD(counts)
    /\ pc' = "fd computed"
    /\ UNCHANGED <<shape, boxSize, animating, animIndex, counts, appVars, lleVars,
                   builderVars, rqaVars, sampVars, genVars>>

SpecCalcFD == InitCalcFD /\ [][CalculateFD]_vars

-----------------------------------------------------------------------------
(* Properties of the RQA pipeline.  The definitions below state what the   *)
(* results should be, independently of the loops that compute them.        *)

Idx(mat) == 0..(Len(mat) - 1)
At(mat, i, j) == mat[i + 1][j + 1]
\* the recurrence points: the cells holding 1
Ones(mat) == {c \in Idx(mat) \X Idx(mat) : At(mat, c[1], c[2]) = 1}
UpperOnes(mat) == {c \in Ones(mat) : c[2] > c[1]}

\* number of consecutive 1s next to cell (i, j) in direction (di, dj)
Reach(mat, i, j, di, dj) ==
    Cardinality({t \in 1..Len(mat) :
        \A s \in 1..t :
            /\ i + s * di \in Idx(mat) /\ j + s * dj \in Idx(mat)
            /\ At(mat, i + s * di, j + s * dj) = 1})

\* length of the maximal run of 1s through the recurrence point (i, j)
DiagRunLen(mat, i, j) == Reach(mat, i, j, 1, 1) + Reach(mat, i, j, 0 - 1, 0 - 1) + 1
VertRunLen(mat, i, j) == Reach(mat, i, j, 1, 0) + Reach(mat, i, j, 0 - 1, 0) + 1

\* recurrence points above the main diagonal on a diagonal run long enough
DiagStructurePoints(mat, minLen) ==
    {c \in UpperOnes(mat) : DiagRunLen(mat, c[1], c[2]) >= minLen}
\* recurrence points on a vertical run long enough
VertStructurePoints(mat, minLen) ==
    {c \in Ones(mat) : VertRunLen(mat, c[1], c[2]) >= minLen}

InUnitInterval(q) == q[2] > 0 /\ 0 <= q[1] /\ q[1] <= q[2]
NumLess(p, q) == IsFinite(p) /\ IsFinite(q) /\ p[1] * q[2] < q[1] * p[2]

MatrixComputed == pc \in {"matrix", "lines", "done"}
ValidEmbedding == embeddingDim >= 1 /\ delay >= 1

\* C1: for m >= 1, tau >= 1 and eps >= 0 the matrix returned by
\* computeRecurrenceMatrix is symmetric and its main diagonal is all 1.
C1_SymmetricUnitDiagonal ==
    (pc = "matrix" /\ ValidEmbedding /\ threshold >= 0) =>
        \A i \in Idx(matrix) :
            /\ At(matrix, i, i) = 1
            /\ \A j \in Idx(matrix) : At(matrix, i, j) = At(matrix, j, i)

C1_Witness ==
    /\ pc = "matrix" /\ ValidEmbedding /\ threshold >= 0
    /\ embeddingDim = 2
    /\ \E i, j \in Idx(matrix) : i # j /\ At(matrix, i, j) = 0

\* C2: with n >= 1, eps >= 0 and minLen >= 2, each of RR, DET and LAM lies
\* in [0, 1].
C2_RatiosInUnitInterval ==
    (pc = "done" /\ Len(matrix) >= 1 /\ threshold >= 0 /\ minLineLength >= 2) =>
        /\ InUnitInterval(measures.RR)
        /\ InUnitInterval(measures.DET)
        /\ InUnitInterval(measures.LAM)

C2_Witness ==
    /\ pc = "done" /\ Len(matrix) >= 1 /\ threshold >= 0 /\ minLineLength >= 2
    /\ ValidEmbedding
    /\ NumLess(Zero, measures.DET) /\ NumLess(measures.DET, Num(1))
    /\ NumLess(Zero, measures.LAM)
    /\ NumLess(measures.RR, Num(1))

C4_EmbeddingExact ==
    (pc = "matrix" /\ ValidEmbedding) =>
        LET N == Len(signal)
            n == N - (embeddingDim - 1) * delay
        IN  /\ Len(vectors) = (IF n > 0 THEN n ELSE 0)
            /\ \A i \in 0..(n - 1) :
                  /\ Len(vectors[i + 1]) = embeddingDim
                  /\ \A d \in 0..(embeddingDim - 1) :
                        /\ i + d * delay <= N - 1
                        /\ vectors[i + 1][d + 1].def
                        /\ vectors[i + 1][d + 1].v = signal[i + d * delay + 1]
            /\ embeddingDim = 1 =>
                  /\ Len(vectors) = N
                  /\ \A i \in 1..N : vectors[i] = <<[def |-> TRUE, v |-> signal[i]]>>

C4_Witness ==
    /\ pc = "matrix" /\ embeddingDim = 2 /\ delay = 2
    /\ Len(vectors) >= 1
    /\ vectors[1][1].v # vectors[1][2].v

\* C5: DET is the number of points on diagonal segments with offset k > 0
\* (the sum of those segments' lengths) divided by U, the number of
\* recurrence points with j > i, and is 0 when U = 0; segments with k < 0 and
\* the main diagonal count on neither side.
C5_DetDefinition ==
    pc = "done" =>
        LET U == Cardinality(UpperOnes(matrix))
            Dpts == Cardinality(DiagStructurePoints(matrix, minLineLength))
        IN  /\ SumLengths(SelectSeq(diagonalLines, LAMBDA l : l.k > 0)) = Dpts
            /\ measures.DET = (IF U = 0 THEN Zero ELSE <<Dpts, U>>)

C5_Witness ==
    /\ pc = "done" /\ ValidEmbedding /\ threshold >= 0 /\ minLineLength >= 2
    /\ \E l \in 1..Len(diagonalLines) : diagonalLines[l].k < 0
    /\ NumLess(Zero, measures.DET) /\ NumLess(measures.DET, Num(1))
    /\ \E i \in Idx(matrix) : At(matrix, i, i) = 1

C7_ZeroDenominatorGivesZero ==
    (/\ pc = "done" /\ ValidEmbedding /\ threshold >= 0 /\ signal # <<>>
     /\ minLineLength >= 2) =>
        /\ measures.totalPoints = 0 => measures.RR = Zero
        /\ measures.upperTriangleRecurrentPoints = 0 => measures.DET = Zero
        /\ measures.recurrentPoints = 0 => measures.LAM = Zero
        /\ measures.numDiagLines = 0 => measures.avgDiagLength = Zero
        /\ measures.numVertLines = 0 => measures.avgVertLength = Zero

\* C9: malformed parameters (embedding dimension <= 0, delay <= 0, negative
\* threshold, empty sequence) are rejected: no matrix is returned for them.
C9_MalformedRejected ==
    (embeddingDim <= 0 \/ delay <= 0 \/ threshold < 0 \/ signal = <<>>) =>
        ~MatrixComputed

-----------------------------------------------------------------------------
(* Properties of the sample-entropy estimator. *)

IsFiniteValue(v) == v.kind \in {"const", "neglog"} /\ v.num > 0 /\ v.den > 0

\* C8: calculateSampEn returns the constant 2.5 exactly when B = 0 or A = 0
\* and -ln(A/B) otherwise; for m >= 1 and r > 0 the result is a finite
\* number, never NaN or an infinity.
C8_SentinelOrFiniteLog ==
    (pc = "sampen" /\ patternLen >= 1 /\ tolerance > 0) =>
        /\ (Bm = 0 \/ Am = 0) <=> sampEn = JsValue("const", 5, 2)
        /\ (Bm > 0 /\ Am > 0) => sampEn = JsValue("neglog", Am, Bm)
        /\ IsFiniteValue(sampEn)

C8_Witness ==
    /\ pc = "sampen" /\ patternLen >= 1 /\ tolerance > 0
    /\ Am > 0 /\ Am < Bm
    /\ sampEn.kind = "neglog"

-----------------------------------------------------------------------------
(* Properties of the engine functions called repeatedly. *)

SameCall(c1, c2) == c1.fn = c2.fn /\ c1.args = c2.args

\* the seeds the n-th random() of a generator started at seed0 goes through
RECURSIVE SeedAfter(_, _)
SeedAfter(seed0, n) == IF n = 0 THEN seed0 ELSE LcgNext(SeedAfter(seed0, n - 1))

\* C10: the engine functions keep no state between calls: a call with the
\* same arguments as an earlier call returns the same result, whatever calls
\* were made in between; every 'laminar' signal is drawn from a generator
\* started at 12345 and every 'random' signal from one started at 54321,
\* neither moved by calls of the other kind.
C10_CallsAreStateless ==
    /\ (refCall # NoCall /\ SameCall(genCall, refCall)) => genResult = refResult
    /\ (genCall.fn = "generateSignal" /\ genCall.args[1] = "random") =>
          \A i \in 1..Len(genResult) : genResult[i].a = SeedAfter(54321, i)
    /\ (genCall.fn = "generateSignal" /\ genCall.args[1] = "laminar"
          /\ Len(genResult) >= 1) =>
          genResult[1].b \in {SeedAfter(12345, 2), SeedAfter(12345, 3)}

\* a 'laminar' signal is generated again after a 'random' and another
\* 'laminar' call were made in between
C10_Witness ==
    /\ refCall = Call("generateSignal", <<"laminar", 2>>)
    /\ genCall = refCall
    /\ seedRandom # 0
    /\ seedLaminar # 0
    /\ genResult = refResult
    /\ Len(genResult) = 2

-----------------------------------------------------------------------------
(* Properties of the line finders on arbitrary binary matrices.            *)

Range(seq) == {seq[x] : x \in 1..Len(seq)}
AllOnes(mat) == \A c \in Idx(mat) \X Idx(mat) : At(mat, c[1], c[2]) = 1

\* (i, j) lies in the matrix and holds 1
IsOne(mat, i, j) == i \in Idx(mat) /\ j \in Idx(mat) /\ At(mat, i, j) = 1

\* the len cells from (i, j) in direction (di, dj) are a maximal run of 1s:
\* all of them are 1, and the cell before the first and the cell after the
\* last are 0 or outside the matrix
IsMaximalRun(mat, i, j, di, dj, len) ==
    /\ len >= 1
    /\ \A s \in 0..(len - 1) : IsOne(mat, i + s * di, j + s * dj)
    /\ ~IsOne(mat, i - di, j - dj)
    /\ ~IsOne(mat, i + len * di, j + len * dj)

\* the maximal runs of at least minLen cells in direction (di, dj), as
\* pairs <<first cell, length>>
MaximalRuns(mat, minLen, di, dj) ==
    {r \in (Idx(mat) \X Idx(mat)) \X (minLen..Len(mat)) :
        IsMaximalRun(mat, r[1][1], r[1][2], di, dj, r[2])}

\* the segments each finder should return
ExpectedDiagonal(mat, minLen) ==
    {[start |-> r[1], length |-> r[2], type |-> "diagonal", k |-> r[1][2] - r[1][1]] :
        r \in {q \in MaximalRuns(mat, minLen, 1, 1) : q[1][1] # q[1][2]}}
ExpectedVertical(mat, minLen) ==
    {[start |-> r[1], length |-> r[2], type |-> "vertical"] :
        r \in MaximalRuns(mat, minLen, 1, 0)}
ExpectedHorizontal(mat, minLen) ==
    {[start |-> r[1], length |-> r[2], type |-> "horizontal"] :
        r \in MaximalRuns(mat, minLen, 0, 1)}

\* the list holds exactly the segments of the set, each once
ListsExactly(lines, expected) ==
    Range(lines) = expected /\ Len(lines) = Cardinality(expected)

\* C14: when minLength is greater than the matrix size n, each of
\* findDiagonalLines, findVerticalLines and findHorizontalLines returns the
\* empty list, whatever the binary matrix (the all-ones matrix included).
C14_NoLinesWhenMinLengthExceedsSize ==
    (pc = "lines" /\ minLineLength > Len(matrix)) =>
        /\ diagonalLines = <<>>
        /\ verticalLines = <<>>
        /\ horizontalLines = <<>>

C14_Witness ==
    /\ pc = "lines"
    /\ Len(matrix) = 2 /\ AllOnes(matrix)
    /\ minLineLength = 3
    /\ diagonalLines = <<>> /\ verticalLines = <<>> /\ horizontalLines = <<>>

\* C19: for every binary matrix and minLength >= 1, each finder returns
\* exactly the maximal runs of consecutive 1s of length >= minLength along
\* its lines (diagonals of every offset k # 0 with the signed offset, columns,
\* rows): the recorded start is the first cell of the run, the cells before
\* and after the run are 0 or outside the matrix, every such run is returned
\* once, and nothing else is returned.
C19_ScansReturnMaximalRuns ==
    (pc = "lines" /\ minLineLength >= 1) =>
        /\ ListsExactly(diagonalLines, ExpectedDiagonal(matrix, minLineLength))
        /\ ListsExactly(verticalLines, ExpectedVertical(matrix, minLineLength))
        /\ ListsExactly(horizontalLines, ExpectedHorizontal(matrix, minLineLength))

\* a run that ends at the array boundary, a run closed by a 0, and a run
\* too short to be returned, in one matrix
C19_Witness ==
    /\ pc = "lines"
    /\ Len(matrix) = 3 /\ minLineLength = 2
    /\ matrix = <<<<1, 1, 0>>, <<1, 0, 1>>, <<0, 1, 1>>>>
    /\ Len(verticalLines) = 2 /\ Len(horizontalLines) = 2
    /\ Len(diagonalLines) = 2

-----------------------------------------------------------------------------
(* Properties of computeRecurrenceMatrix stated from the signal.           *)

\* squared Euclidean distance of the embedded vectors i and j (0-based),
\* from the samples signal[i + d*tau] and signal[j + d*tau], d below m
RECURSIVE DistSq(_, _, _, _, _)
DistSq(sig, i, j, m, tau) ==
    IF m <= 0 THEN 0
    ELSE LET a == sig[i + (m - 1) * tau + 1]
             b == sig[j + (m - 1) * tau + 1]
         IN  (a - b) * (a - b) + DistSq(sig, i, j, m - 1, tau)

\* C15: when N <= (m-1)*tau, computeRecurrenceMatrix returns the empty
\* matrix (zero rows) and builds no vector, so it reads no sample at all, in
\* particular none outside the sequence.
C15_ShortSignalGivesEmptyMatrix ==
    (pc = "matrix" /\ Len(signal) <= (embeddingDim - 1) * delay) =>
        /\ matrix = <<>>
        /\ vectors = <<>>

C15_Witness ==
    /\ pc = "matrix"
    /\ Len(signal) = 2 /\ embeddingDim = 2 /\ delay = 2
    /\ matrix = <<>>

-----------------------------------------------------------------------------
(* The end-to-end scenario: sin(0.3 i), 60 samples, eps = 0.3, m = 1,      *)
(* minLen = 2.                                                             *)

SineScenario ==
    /\ pc = "done"
    /\ signal = SineSignal
    /\ threshold = 3000 /\ embeddingDim = 1 /\ minLineLength = 2

HasLongDiagonal(len) == \E x \in 1..Len(diagonalLines) : diagonalLines[x].length >= len

\* C13 as stated: in the scenario RR lies strictly between 0.3 and 0.6, DET
\* is above 0.7 and some diagonal segment has length >= 10.
C13_SineScenarioAsStated ==
    SineScenario =>
        /\ NumLess(<<3, 10>>, measures.RR) /\ NumLess(measures.RR, <<6, 10>>)
        /\ NumLess(<<7, 10>>, measures.DET)
        /\ HasLongDiagonal(10)

\* C13: in the scenario RR lies strictly between 0.25 and 0.6 (it is
\* 974/3600), DET is above 0.7 and some diagonal segment has length >= 10.
C13_SineScenario ==
    SineScenario =>
        /\ NumLess(<<1, 4>>, measures.RR) /\ NumLess(measures.RR, <<6, 10>>)
        /\ NumEq(measures.RR, <<974, 3600>>)
        /\ NumLess(<<7, 10>>, measures.DET)
        /\ HasLongDiagonal(10)

C13_Witness ==
    /\ SineScenario
    /\ Len(matrix) = SignalLength
    /\ measures.recurrentPoints = 974
    /\ HasLongDiagonal(10)

-----------------------------------------------------------------------------
(* StepByStepBuilder as a state machine.  The builder section is mounted   *)
(* and in its initial state.  Every action ends with the effect of the     *)
(* render it causes.                                                       *)

\* steps.length
stepsLength == 5

InitSteps ==
    /\ pc = "builder"
    /\ signal = <<>>
    /\ RqaIdle
    /\ SampIdle
    /\ GenIdle
    /\ UiIdle

\* the effect on [autoPlay, step] after a render with step s and autoPlay a:
\* the cleanup clears the timeout of the previous render; a new timeout is
\* set while playing before the last step, and at the last step
\* setAutoPlay(false) causes one more render, whose effect does nothing
Effect(s, a) ==
    IF a /\ s < stepsLength - 1 THEN [autoPlay |-> TRUE, stepTimer |-> TRUE]
    ELSE [autoPlay |-> FALSE, stepTimer |-> FALSE]

\* the result of a render with step s and autoPlay a, caused by a click or
\* not
Rerender(s, a, clicked) ==
    /\ step' = s
    /\ autoPlay' = Effect(s, a).autoPlay
    /\ stepTimer' = Effect(s, a).stepTimer
    /\ userActions' = userActions + (IF clicked THEN 1 ELSE 0)
    /\ UNCHANGED <<pc, appVars, lleVars, fdVars, rqaVars, sampVars, genVars>>

\* Previous: setStep(s => Math.max(0, s - 1)), disabled at step 0
PreviousStep ==
    /\ pc = "builder" /\ userActions < MaxUserActions
    /\ step # 0
    /\ Rerender(IF step - 1 > 0 THEN step - 1 ELSE 0, autoPlay, TRUE)

\* Next: setStep(s => Math.min(steps.length - 1, s + 1)), disabled at the
\* last step
NextStep ==
    /\ pc = "builder" /\ userActions < MaxUserActions
    /\ step # stepsLength - 1
    /\ Rerender(IF step + 1 < stepsLength - 1 THEN step + 1 ELSE stepsLength - 1,
                autoPlay, TRUE)

\* a segment of the progress indicator: setStep(idx)
SelectStep ==
    /\ pc = "builder" /\ userActions < MaxUserActions
    /\ \E idx \in 0..(stepsLength - 1) : Rerender(idx, autoPlay, TRUE)

\* the button labelled 'Auto Play' or, while autoPlay, 'Stop':
\* setStep(0); setAutoPlay(true)
ClickAutoPlay ==
    /\ pc = "builder" /\ userActions < MaxUserActions
    /\ Rerender(0, TRUE, TRUE)

\* faulty variant of TimerFires: the timeout is set at the last step as well
TimerFiresAtEnd ==
    /\ pc = "builder"
    /\ autoPlay
    /\ step' = step + 1
    /\ UNCHANGED <<autoPlay, stepTimer, userActions>>
    /\ UNCHANGED <<pc, appVars, lleVars, fdVars, rqaVars, sampVars, genVars>>

\* the timeout of the effect fires: setStep(s => s + 1)
TimerFires ==
    /\ pc = "builder"
    /\ stepTimer
    /\ Rerender(step + 1, autoPlay, FALSE)

NextSteps == PreviousStep \/ NextStep \/ SelectStep \/ ClickAutoPlay \/ TimerFires

SpecSteps == InitSteps /\ [][NextSteps]_vars

\* a pending timeout fires after 3000 ms unless it is cleared
SpecStepsFair == SpecSteps /\ WF_vars(TimerFires)

-----------------------------------------------------------------------------
(* Properties of the toggle of App *)

\* C18: in App exactly one of the two visualizations is rendered, RQA at the
\* start; after k clicks on the toggle button RQA is the one shown iff k is
\* even, and the colour of the button is the one that belongs to the view
\* shown (blue with RQA, orange with Chaos).
C18_OneViewByClickParity ==
    pc = "app" =>
        /\ Rendered(showRQA) \subseteq {"RQAVisualization", "ChaosVisualization"}
        /\ Cardinality(Rendered(showRQA)) = 1
        /\ ("RQAVisualization" \in Rendered(showRQA)) <=> (clicks % 2 = 0)
        /\ ButtonBackground(showRQA) =
               (IF "RQAVisualization" \in Rendered(showRQA) THEN "#3498db" ELSE "#ff6b35")

\* three clicks were made, the last one while the pointer was on the button
C18_Witness ==
    /\ pc = "app"
    /\ clicks = 3
    /\ "ChaosVisualization" \in Rendered(showRQA)
    /\ buttonTransform = "scale(1.05)"

-----------------------------------------------------------------------------
(* Properties of the separation curve of LLEVisualization *)

\* C17: in the chaotic (lambda = 0.9) and the stable (lambda = -0.5) regime
\* the separation returned by getTrajectories at every time 0..100 is
\* d0 * e^(lambda * t), with d0 = 0.01 and t = time / 10.
C17_SeparationIsExponential ==
    (pc = "lle" /\ trajectoryType \in {"chaotic", "stable"}) =>
        /\ time \in 0..maxTime
        /\ getTrajectories(time, trajectoryType).separation =
               Separation("exp", IF trajectoryType = "chaotic" THEN 9 ELSE 0 - 5, time)

-----------------------------------------------------------------------------
(* Properties of the box-counting dimension *)

\* the double x, finite and positive, against the ratio p / q of two
\* positive integers below 2^15: 1, 0 or -1 as x > p / q, x = p / q, x < p / q
CmpRatio(x, p, q) ==
    CHOOSE r \in
      {BCmp(a, b, Len(a)) :
         a \in {BShl(BMulSmall(x.m, q, 1, 0), IF x.e < 0 THEN 0 ELSE x.e)},
         b \in {BShl(<<p>>, IF x.e < 0 THEN 0 - x.e ELSE 0)}} : TRUE

\* lo / 100 <= x <= hi / 100
WithinHundredths(x, lo, hi) ==
    /\ x.sgn = 1
    /\ CmpRatio(x, lo, 100) >= 0
    /\ CmpRatio(x, hi, 100) <= 0

\* C11: for the straight line the box count of size s is 256 / s, and the
\* dimension calculateFD returns lies within 1.0 +/- 0.15.
C11_LineDimensionNearOne ==
    (pc = "fd" /\ shape = "line") =>
        /\ \A i \in 1..6 : counts[i] = 256 \div sizes[i]
        /\ WithinHundredths(fd, 85, 115)

\* the line is selected and the slider is at the smallest box size
C11_Witness ==
    /\ pc = "fd"
    /\ shape = "line"
    /\ boxSize = 4
    /\ counts[6] = 64
    /\ fd.sgn = 1

\* C12: for the filled square the dimension calculateFD returns lies within
\* 2.0 +/- 0.15.
C12_SquareDimensionNearTwo ==
    (pc = "fd" /\ shape = "square") => WithinHundredths(fd, 185, 215)

-----------------------------------------------------------------------------
(* Properties of the counters of rqaMeasures *)

\* C30: for a matrix computed with eps >= 0 the counters of rqaMeasures
\* satisfy recurrentPointsExcludingLOI = 2 * upperTriangleRecurrentPoints
\* and recurrentPoints = n + 2 * upperTriangleRecurrentPoints.
C30_CountersOfSymmetricMatrix ==
    (pc = "done" /\ threshold >= 0) =>
        /\ measures.recurrentPointsExcludingLOI =
               2 * measures.upperTriangleRecurrentPoints
        /\ measures.recurrentPoints =
               Len(matrix) + 2 * measures.upperTriangleRecurrentPoints

\* a matrix with recurrence points off the main diagonal, and cells that
\* are not recurrent
C30_Witness ==
    /\ pc = "done" /\ threshold >= 0 /\ ValidEmbedding
    /\ Len(matrix) >= 3
    /\ measures.upperTriangleRecurrentPoints >= 1
    /\ measures.recurrentPoints < measures.totalPoints

-----------------------------------------------------------------------------
(* Properties of the diagonal segments of a symmetric matrix *)

IsSymmetric(mat) == \A i, j \in Idx(mat) : At(mat, i, j) = At(mat, j, i)

\* the positions in lines of the segments with offset k, start (i, j) and
\* the given length
SegmentsAt(lines, k, i, j, length) ==
    {l \in 1..Len(lines) :
        /\ lines[l].k = k
        /\ lines[l].start = <<i, j>>
        /\ lines[l].length = length}

\* C22: for a symmetric matrix the segments findDiagonalLines returns are
\* mirror pairs: a segment with offset k, start (i, j) and length L is
\* returned exactly once, and so is the segment with offset -k, start (j, i)
\* and length L; no returned segment has offset 0.
C22_DiagonalMirrorPairs ==
    (pc = "lines" /\ minLineLength >= 1 /\ IsSymmetric(matrix)) =>
        \A l \in 1..Len(diagonalLines) :
            LET line == diagonalLines[l] IN
            /\ line.k # 0
            /\ Cardinality(SegmentsAt(diagonalLines, line.k, line.start[1],
                                      line.start[2], line.length)) = 1
            /\ Cardinality(SegmentsAt(diagonalLines, 0 - line.k, line.start[2],
                                      line.start[1], line.length)) = 1

\* a symmetric matrix with ones on the main diagonal and one segment of
\* length 2 on each side of it
C22_Witness ==
    /\ pc = "lines" /\ minLineLength = 2
    /\ matrix = <<<<1, 1, 0>>, <<1, 1, 1>>, <<0, 1, 1>>>>
    /\ Len(diagonalLines) = 2
    /\ diagonalLines[1].k = 1 /\ diagonalLines[2].k = 0 - 1
    /\ diagonalLines[1].start = <<0, 1>> /\ diagonalLines[2].start = <<1, 0>>

-----------------------------------------------------------------------------
(* Properties of the length statistics of rqaMeasures *)

\* the sum of the lengths of the segments at the positions S of lines
RECURSIVE LengthSum(_, _)
LengthSum(lines, S) ==
    IF S = {} THEN 0
    ELSE LET l == CHOOSE x \in S : TRUE IN
         lines[l].length + LengthSum(lines, S \ {l})

\* the largest length among the segments at the positions S, S not empty
LengthMax(lines, S) ==
    CHOOSE x \in {lines[l].length : l \in S} : \A l \in S : lines[l].length <= x

\* the mean length of the segments at the positions S, 0 for none
LengthMean(lines, S) ==
    IF S = {} THEN Zero ELSE <<LengthSum(lines, S), Cardinality(S)>>

\* C23: L is the mean and L_max the maximum of the lengths of the diagonal
\* segments with k > 0, TT is the mean length of the vertical segments, and
\* each is 0 when there is no such segment; when there is a segment with
\* k > 0, minLen <= L <= L_max <= n - 1.
C23_LengthStatistics ==
    pc = "done" =>
        LET Upper == {l \in 1..Len(diagonalLines) : diagonalLines[l].k > 0}
            Vert == 1..Len(verticalLines)
        IN  /\ NumEq(measures.avgDiagLength, LengthMean(diagonalLines, Upper))
            /\ NumEq(measures.avgVertLength, LengthMean(verticalLines, Vert))
            /\ NumEq(measures.maxDiagLength,
                     IF Upper = {} THEN Zero ELSE Num(LengthMax(diagonalLines, Upper)))
            /\ Upper # {} =>
                 /\ NumLeq(Num(minLineLength), measures.avgDiagLength)
                 /\ NumLeq(measures.avgDiagLength, measures.maxDiagLength)
                 /\ NumLeq(measures.maxDiagLength, Num(Len(matrix) - 1))

\* two segments of different lengths above the main diagonal, so that the
\* mean lies strictly between the minimum length and the maximum
C23_Witness ==
    /\ pc = "done" /\ ValidEmbedding /\ threshold >= 0
    /\ \E l1, l2 \in 1..Len(diagonalLines) :
          /\ diagonalLines[l1].k > 0 /\ diagonalLines[l2].k > 0
          /\ diagonalLines[l1].length < diagonalLines[l2].length
    /\ NumLess(measures.avgDiagLength, measures.maxDiagLength)
    /\ verticalLines # <<>>

-----------------------------------------------------------------------------
(* Properties of the pair loop of calculateSampEn *)

\* every sample of the windows of the given length at i and j differs by
\* less than r: their Chebyshev distance is below r
WindowsWithin(sig, i, j, length, r) ==
    \A k \in 1..length : Abs(sig[i + k] - sig[j + k]) < r

\* C21: for m >= 1 the loops of calculateSampEn visit each pair i < j of
\* 0..N-m-1 exactly once and no pair with i = j; B is the number of these
\* pairs whose windows of length m are at Chebyshev distance < r, A the
\* number of those with |x[i+m] - x[j+m]| < r as well, and no index >= N is
\* read.
C21_PairsVisitedOnce ==
    (pc = "sampen" /\ patternLen >= 1) =>
        LET loop == TemplatePairs(signal, patternLen, 0)
            Starts == 0..(Len(signal) - patternLen - 1)
            Pairs == {p \in Starts \X Starts : p[1] < p[2]}
        IN  /\ \A x \in 1..Len(loop) : loop[x] \in Pairs
            /\ \A p \in Pairs : Cardinality({x \in 1..Len(loop) : loop[x] = p}) = 1
            /\ Bm = Cardinality({p \in Pairs :
                       WindowsWithin(signal, p[1], p[2], patternLen, tolerance)})
            /\ Am = Cardinality({p \in Pairs :
                       WindowsWithin(signal, p[1], p[2], patternLen + 1, tolerance)})
            /\ \A x \in 1..Len(loop) :
                  IndicesRead(signal, loop[x], patternLen, tolerance)
                      \subseteq 0..(Len(signal) - 1)

\* three pairs of windows of length 1, of which some match at length 1 and
\* fewer at length 2; the last sample is read
C21_Witness ==
    /\ pc = "sampen" /\ patternLen = 1 /\ tolerance >= 1
    /\ Len(signal) = 4
    /\ Len(TemplatePairs(signal, patternLen, 0)) = 3
    /\ Bm >= 2 /\ Am >= 1 /\ Am < Bm
    /\ \E x \in 1..3 :
          3 \in IndicesRead(signal, TemplatePairs(signal, patternLen, 0)[x],
                            patternLen, tolerance)

\* C28: in calculateSampEn A <= B holds after every iteration of the pair
\* loop, and a result that is not the sentinel is -ln(A/B) with
\* 0 < A <= B, so it is >= 0.
C28_ANeverExceedsB ==
    pc = "sampen" =>
        LET loop == TemplatePairs(signal, patternLen, 0)
            BAfter(x) == Cardinality({y \in 1..x :
                            MatchesAtM(signal, loop[y], patternLen, tolerance)})
            AAfter(x) == Cardinality({y \in 1..x :
                            /\ MatchesAtM(signal, loop[y], patternLen, tolerance)
                            /\ MatchesAtM1(signal, loop[y], patternLen, tolerance)})
        IN  /\ \A x \in 0..Len(loop) : AAfter(x) <= BAfter(x)
            /\ Am = AAfter(Len(loop)) /\ Bm = BAfter(Len(loop))
            /\ Am <= Bm
            /\ sampEn # Sentinel =>
                 /\ sampEn = JsValue("neglog", Am, Bm)
                 /\ 0 < Am

\* a result that is a logarithm of a ratio below 1
C28_Witness ==
    /\ pc = "sampen" /\ patternLen >= 1 /\ tolerance > 0
    /\ sampEn # Sentinel
    /\ 0 < Am /\ Am < Bm

-----------------------------------------------------------------------------
(* findMatches of SampEnVisualization: the templates matching the selected
   one.  highlightIndex is 0-based, -1 stands for null. *)

\* Math.max(...pattern.map(...)) < r: the maximum of an empty list is
\* -Infinity, which is below every r
PatternMatches(sig, highlightIndex, i, m, r) ==
    LET length == IF Len(sig) - highlightIndex < m
                  THEN Len(sig) - highlightIndex ELSE m
    IN  length <= 0 \/ MaxDiff(sig, highlightIndex, i, length) < r

\* faulty variant of findMatches: the selected template is not skipped
findMatchesWithSelf(sig, highlightIndex, m, r) ==
    LET candidates == [x \in 1..(Len(sig) - m) |-> x - 1]
        IsMatch(i) == PatternMatches(sig, highlightIndex, i, m, r)
        IsExtended(i) ==
            /\ i + m < Len(sig) /\ highlightIndex + m < Len(sig)
            /\ Abs(sig[highlightIndex + m + 1] - sig[i + m + 1]) < r
    IN  [matches |-> SelectSeq(candidates, IsMatch),
         extended |-> SelectSeq(SelectSeq(candidates, IsMatch), IsExtended)]

findMatches(sig, highlightIndex, m, r) ==
    IF highlightIndex = 0 - 1 THEN [matches |-> <<>>, extended |-> <<>>]
    ELSE
    LET candidates == [x \in 1..(Len(sig) - m) |-> x - 1]
        IsMatch(i) == i # highlightIndex
                      /\ PatternMatches(sig, highlightIndex, i, m, r)
        IsExtended(i) ==
            /\ i + m < Len(sig) /\ highlightIndex + m < Len(sig)
            /\ Abs(sig[highlightIndex + m + 1] - sig[i + m + 1]) < r
    IN  [matches |-> SelectSeq(candidates, IsMatch),
         extended |-> SelectSeq(SelectSeq(candidates, IsMatch), IsExtended)]

\* the sum of f[h] over the set S of integers
RECURSIVE SumOver(_, _)
SumOver(f, S) ==
    IF S = {} THEN 0
    ELSE LET h == CHOOSE x \in S : TRUE IN f[h] + SumOver(f, S \ {h})

\* C29: for m >= 1, summing over every selectable index h of 0..N-m-1 the
\* number of matches findMatches returns gives 2B, and summing the number of
\* extended matches gives 2A, for the B and A calculateSampEn counts with
\* the same signal, m and r.
C29_MatchesCountPairsTwice ==
    (pc = "sampen" /\ patternLen >= 1) =>
        LET Selectable == 0..(Len(signal) - patternLen - 1)
            found == [h \in Selectable |->
                         findMatches(signal, h, patternLen, tolerance)]
        IN  /\ SumOver([h \in Selectable |-> Len(found[h].matches)], Selectable)
                   = 2 * Bm
            /\ SumOver([h \in Selectable |-> Len(found[h].extended)], Selectable)
                   = 2 * Am

\* some template has a match that does not extend, another one that does
C29_Witness ==
    /\ pc = "sampen" /\ patternLen >= 1 /\ Len(signal) - patternLen >= 3
    /\ Am >= 1 /\ Am < Bm
    /\ \E h \in 0..(Len(signal) - patternLen - 1) :
          LET f == findMatches(signal, h, patternLen, tolerance)
          IN  Len(f.matches) >= 1 /\ Len(f.extended) < Len(f.matches)
    /\ findMatches(signal, 0 - 1, patternLen, tolerance).matches = <<>>

-----------------------------------------------------------------------------
(* Properties of the timers of LLEVisualization and FDVisualization *)

\* C26: in LLEVisualization a tick of the interval happens only while
\* isPlaying and time < 100 and adds exactly 1 to time; 0 <= time <= 100
\* in every reachable state, whatever the order of ticks, play/pause,
\* reset, regime selections and slider inputs; after reset and after a
\* regime selection time = 0 and isPlaying = FALSE.
C26_TimeStaysInRange ==
    /\ [](pc = "lle" => (time >= 0 /\ time <= 100))
    /\ [][Tick => (isPlaying /\ time < 100 /\ time' = time + 1
                   /\ isPlaying' = isPlaying)]_vars
    /\ [][(ResetTime \/ SelectTrajectoryType) => (time' = 0 /\ isPlaying' = FALSE)]_vars

\* playing has reached the last instant, where the interval is gone
C26_Witness ==
    /\ pc = "lle" /\ isPlaying /\ time = 100
    /\ trajectoryType = "periodic"

\* C27: in FDVisualization the firings of the interval that animateBoxes
\* starts set boxSize to 128, 64, 32, 16, 8, 4 in this order, one value
\* per firing; the sixth firing clears the interval and sets animating to
\* FALSE, after which nothing fires; animateBoxes runs only while animating
\* is FALSE, so an interval exists exactly while animating is TRUE and there
\* is never more than one.
C27_AnimationRunsOnce ==
    /\ [](pc = "fd" => (animating <=> animIndex >= 0))
    /\ [](pc = "fd" => (~animating => ~ENABLED AnimateTick))
    /\ [][AnimateBoxes => (~animating /\ animIndex = 0 - 1
                           /\ animating' /\ animIndex' = 0)]_vars
    /\ [][AnimateTick =>
            /\ animIndex \in 0..5
            /\ boxSize' = <<128, 64, 32, 16, 8, 4>>[animIndex + 1]
            /\ IF animIndex = 5
               THEN ~animating' /\ animIndex' = 0 - 1
               ELSE animating' /\ animIndex' = animIndex + 1]_vars

\* five firings have happened and the sixth is due
C27_Witness ==
    /\ pc = "fd" /\ animating /\ animIndex = 5 /\ boxSize = 8

-----------------------------------------------------------------------------
(* Properties of the auto-play of StepByStepBuilder *)

\* C24: in StepByStepBuilder a click on the auto-play button while autoPlay
\* is TRUE, when its label is 'Stop', makes autoPlay FALSE and leaves no
\* timeout that would change step.
C24_StopEndsAutoPlay ==
    [][(ClickAutoPlay /\ autoPlay) => (autoPlay' = FALSE /\ stepTimer' = FALSE)]_vars

\* C25: in StepByStepBuilder a click on Auto Play sets step to 0 and starts
\* the timeout; every firing adds exactly 1 to step, which stays below the
\* last step before it; the firing that reaches step 4 ends auto-play, and
\* without auto-play nothing fires, so step stays; unless the user clicks
\* again, auto-play ends at step 4; and step is within 0..4 in every
\* reachable state, whatever the order of the clicks and the firings.
C25_AutoPlayTerminates ==
    /\ [](pc = "builder" => step \in 0..4)
    /\ [](pc = "builder" => (stepTimer <=> autoPlay))
    /\ [](pc = "builder" => (~autoPlay => ~ENABLED TimerFires))
    /\ [][ClickAutoPlay => (step' = 0 /\ autoPlay' /\ stepTimer')]_vars
    /\ [][TimerFires =>
            /\ autoPlay /\ step < 4
            /\ step' = step + 1
            /\ userActions' = userActions
            /\ IF step' = 4 THEN ~autoPlay' /\ ~stepTimer'
                            ELSE autoPlay' /\ stepTimer']_vars
    /\ \A c \in 0..MaxUserActions :
          (pc = "builder" /\ autoPlay /\ userActions = c)
              ~> ((~autoPlay /\ step = 4) \/ userActions > c)

\* Auto Play was clicked, nothing else, and the timeout has fired three times
C25_Witness ==
    /\ pc = "builder" /\ userActions = 1
    /\ autoPlay /\ stepTimer /\ step = 3

====
